---- MODULE Spec2Model ----
(***************************************************************************)
(* Verification model of the entity / relation / knowledge-graph pipeline  *)
(* (custom_ner.py, relation_extraction.py, knowledge_graph.py).            *)
(*                                                                         *)
(* Spec         the graph store (KnowledgeGraph) as a state machine        *)
(* SpecResolve  CustomNER._resolve_overlaps applied to bounded span lists  *)
(* SpecText     the recognizer and the relation extractor applied to       *)
(*              bounded texts, called in the order of process_text         *)
(***************************************************************************)
EXTENDS Integers, Sequences, FiniteSets, TLC

VARIABLES
    kg, file, saved, addCalls, last,              \* the graph store
    inSpans, retResolved, resolveDone,            \* _resolve_overlaps
    inText, nerStep, retPositions, retEntities,   \* the extractors
    retRelations, retSimple,
    callArg, callRet,                             \* one argument and the calls made on it
    subgraph_kg,                                  \* the store returned by get_subgraph
    stats                                         \* Pipeline.stats

storeVars == <<kg, file, saved, addCalls, last>>
resolveVars == <<inSpans, retResolved, resolveDone>>
textVars == <<inText, nerStep, retPositions, retEntities, retRelations, retSimple>>
callVars == <<callArg, callRet>>
subVars == <<subgraph_kg>>
pipelineVars == <<stats>>
vars == <<storeVars, resolveVars, textVars, callVars, subVars, pipelineVars>>

(***************************************************************************)
(* Bounds and input domains                                                *)
(***************************************************************************)
\* the graph store: log length reached by add_triple, entries the log can
\* hold before an append fails, length of a batch
MaxLog == 2
MemCap == 6
MaxBatch == 2

\* _resolve_overlaps: length of the span list
MaxSpans == 3

\* the extractors: number of fragments a text is made of
MaxFragments == 3

\* extract_simple_triples from the entities on: length of the entity list
MaxEntities == 2

\* single calls on a text: number of pieces the text is made of
MaxPieces == 3

\* subgraphs: depth of the search, add_triple calls after get_subgraph
MaxDepth == 2
MaxAddsAfter == 1

EntityNames == {"A", "B"}
Predicates == {"R", "S"}
NoneV == "None"
TypeArgs == {NoneV, "PERSON", "LOCATION"}
ObjectTypeArgs == {NoneV, "PERSON"}

(***************************************************************************)
(* Python helpers                                                          *)
(***************************************************************************)
\* truth value of an optional string argument: None and '' are falsy
Truthy(x) == x # NoneV /\ x # ""

\* x or d
PyOr(x, d) == IF Truthy(x) THEN x ELSE d

\* dict.get(key) with the default None
DictGet(d, key) == IF key \in DOMAIN d THEN d[key] ELSE NoneV

\* d[key] = value
DictSet(d, key, value) == (key :> value) @@ d

(***************************************************************************)
(* Python str, restricted to ASCII.  Offsets are 0-based as in Python.     *)
(***************************************************************************)
UpperLetters == "ABCDEFGHIJKLMNOPQRSTUVWXYZ"
LowerLetters == "abcdefghijklmnopqrstuvwxyz"
DigitChars == "0123456789"

\* s[i]
CharAt(s, i) == SubSeq(s, i + 1, i + 1)

\* s[a:b]; empty when a >= b
Slice(s, a, b) == IF a >= b THEN "" ELSE SubSeq(s, a + 1, b)

CharsOf(s) == {CharAt(s, i) : i \in 0..(Len(s) - 1)}
Uppers == CharsOf(UpperLetters)
Lowers == CharsOf(LowerLetters)
Digits == CharsOf(DigitChars)
Letters == Uppers \cup Lowers

\* the lower-case letter of each upper-case letter, and the reverse
ToLower == [c \in Uppers |->
               CharAt(LowerLetters, CHOOSE i \in 0..25 : CharAt(UpperLetters, i) = c)]
ToUpper == [c \in Lowers |->
               CharAt(UpperLetters, CHOOSE i \in 0..25 : CharAt(LowerLetters, i) = c)]

LowerChar(c) == IF c \in Uppers THEN ToLower[c] ELSE c
UpperChar(c) == IF c \in Lowers THEN ToUpper[c] ELSE c

\* str.isalnum() of one character
isalnum(c) == c \in Letters \cup Digits

\* str.lower()
RECURSIVE lower(_)
lower(s) == IF s = "" THEN "" ELSE LowerChar(Head(s)) \o lower(Tail(s))

\* str.upper()
RECURSIVE upper(_)
upper(s) == IF s = "" THEN "" ELSE UpperChar(Head(s)) \o upper(Tail(s))

\* str.title(): a letter is upper-cased when the character before it is not
\* a letter and lower-cased otherwise
RECURSIVE title_from(_, _)
title_from(s, prevLetter) ==
    IF s = "" THEN ""
    ELSE LET c == Head(s)
         IN (IF c \in Letters
             THEN (IF prevLetter THEN LowerChar(c) ELSE UpperChar(c))
             ELSE c) \o title_from(Tail(s), c \in Letters)

title(s) == title_from(s, FALSE)

\* str.find(sub, start): lowest offset >= start of an occurrence, or -1
find(s, sub, start) ==
    LET occ == {i \in start..(Len(s) - Len(sub)) : Slice(s, i, i + Len(sub)) = sub}
    IN IF occ = {} THEN -1 ELSE CHOOSE i \in occ : \A j \in occ : i <= j

(***************************************************************************)
(* Python re: a backtracking matcher.  A pattern is a tree built from the  *)
(* constructors below; Ends(r, s, pos, ic) is the list of offsets at which *)
(* a match of r that starts at pos can end, in the order the backtracking  *)
(* search tries them; the match re reports is the first one.  ic is the    *)
(* IGNORECASE flag.                                                        *)
(***************************************************************************)
Inf == -1
Whitespace == {" ", "\t", "\n", "\r", "\f"}
WordChars == Letters \cup Digits \cup {"_"}

\* a literal; under IGNORECASE it is compared lower-cased
Lit(str) == [t |-> "lit", s |-> str, folded |-> lower(str)]
Cls(chars) == [t |-> "cls", cs |-> chars]
Cat(rs) == [t |-> "cat", rs |-> rs]
Alt(rs) == [t |-> "alt", rs |-> rs]
Rep(r, lo, hi) == [t |-> "rep", r |-> r, lo |-> lo, hi |-> hi]
WordB == [t |-> "wordb"]
Ahead(r) == [t |-> "ahead", r |-> r]

RECURSIVE Ends(_, _, _, _)
RECURSIVE CatEnds(_, _, _, _, _)
RECURSIVE CatCont(_, _, _, _, _, _)
RECURSIVE AltEnds(_, _, _, _, _)
RECURSIVE RepEnds(_, _, _, _, _)
RECURSIVE RepCont(_, _, _, _, _, _, _)

CatEnds(rs, k, s, pos, ic) ==
    IF k > Len(rs) THEN <<pos>>
    ELSE CatCont(rs, k, s, Ends(rs[k], s, pos, ic), 1, ic)

CatCont(rs, k, s, es, m, ic) ==
    IF m > Len(es) THEN <<>>
    ELSE CatEnds(rs, k + 1, s, es[m], ic) \o CatCont(rs, k, s, es, m + 1, ic)

AltEnds(rs, k, s, pos, ic) ==
    IF k > Len(rs) THEN <<>>
    ELSE Ends(rs[k], s, pos, ic) \o AltEnds(rs, k + 1, s, pos, ic)

\* greedy repetition: one more iteration is tried before stopping here
RepEnds(r, s, pos, n, ic) ==
    LET more == IF r.hi = Inf \/ n < r.hi
                THEN RepCont(r, s, pos, Ends(r.r, s, pos, ic), 1, n, ic)
                ELSE <<>>
        here == IF n >= r.lo THEN <<pos>> ELSE <<>>
    IN more \o here

RepCont(r, s, pos, es, m, n, ic) ==
    IF m > Len(es) THEN <<>>
    ELSE (IF es[m] > pos THEN RepEnds(r, s, es[m], n + 1, ic) ELSE <<>>)
         \o RepCont(r, s, pos, es, m + 1, n, ic)

Ends(r, s, pos, ic) ==
    CASE r.t = "lit" ->
            IF /\ pos + Len(r.s) <= Len(s)
               /\ IF ic THEN lower(Slice(s, pos, pos + Len(r.s))) = r.folded
                        ELSE Slice(s, pos, pos + Len(r.s)) = r.s
            THEN <<pos + Len(r.s)>> ELSE <<>>
      [] r.t = "cls" ->
            IF pos < Len(s) /\ (CharAt(s, pos) \in r.cs \/ (ic /\ LowerChar(CharAt(s, pos)) \in r.cs))
            THEN <<pos + 1>> ELSE <<>>
      [] r.t = "cat" -> CatEnds(r.rs, 1, s, pos, ic)
      [] r.t = "alt" -> AltEnds(r.rs, 1, s, pos, ic)
      [] r.t = "rep" -> RepEnds(r, s, pos, 0, ic)
      [] r.t = "wordb" ->
            LET before == pos > 0 /\ CharAt(s, pos - 1) \in WordChars
                after == pos < Len(s) /\ CharAt(s, pos) \in WordChars
            IN IF before # after THEN <<pos>> ELSE <<>>
      [] r.t = "ahead" ->
            IF Ends(r.r, s, pos, ic) # <<>> THEN <<pos>> ELSE <<>>

\* the span <<start, end>> of the match at the lowest offset >= pos, or
\* <<-1, -1>> when there is none
RECURSIVE first_match(_, _, _, _)
first_match(r, s, pos, ic) ==
    IF pos > Len(s) THEN <<-1, -1>>
    ELSE IF Ends(r, s, pos, ic) # <<>> THEN <<pos, Ends(r, s, pos, ic)[1]>>
    ELSE first_match(r, s, pos + 1, ic)

\* pattern.search(s) is not None
search(r, s, ic) == first_match(r, s, 0, ic)[1] # -1

\* pattern.finditer(s): leftmost matches, each search resuming at the end
\* of the previous match; m is the span of the match at hand
RECURSIVE finditer_from(_, _, _, _)
finditer_from(r, s, m, ic) ==
    IF m[1] = -1 THEN <<>>
    ELSE <<[start |-> m[1], end |-> m[2]]>>
         \o finditer_from(r, s, first_match(r, s, IF m[2] = m[1] THEN m[2] + 1 ELSE m[2], ic), ic)

finditer(r, s, ic) == finditer_from(r, s, first_match(r, s, 0, ic), ic)

(***************************************************************************)
(* CustomNER._build_dictionaries: the terms of each type, in source order  *)
(***************************************************************************)
entity_dictionaries == <<
    [type |-> "PERSON", terms |-> <<
        "trump", "donald trump", "biden", "joe biden", "xi jinping", "modi",
        "narendra modi", "trudeau", "justin trudeau", "macron",
        "emmanuel macron", "johnson", "boris johnson", "putin",
        "vladimir putin", "obama", "barack obama", "yellen", "janet yellen",
        "powell", "jerome powell" >>],
    [type |-> "LOCATION", terms |-> <<
        "usa", "united states", "america", "us", "china", "india", "canada",
        "mexico", "japan", "germany", "france", "uk", "united kingdom",
        "britain", "russia", "australia", "brazil", "south korea", "italy",
        "spain", "eu", "european union", "asia", "europe", "north america",
        "africa", "middle east", "washington", "beijing", "new delhi",
        "london", "tokyo", "brussels", "moscow", "ottawa" >>],
    [type |-> "ORGANIZATION", terms |-> <<
        "bbc", "cnn", "fox news", "reuters", "bloomberg", "wsj",
        "wall street journal", "new york times", "nyt", "washington post",
        "financial times", "economist", "al jazeera", "abc news", "nbc",
        "msnbc", "cnbc", "forbes", "politico", "wto",
        "world trade organization", "imf", "world bank", "un",
        "united nations", "nato", "oecd", "apple", "google", "amazon",
        "microsoft", "tesla", "walmart", "general motors", "gm", "ford",
        "boeing", "caterpillar", "harley davidson", "samsung", "huawei",
        "alibaba", "congress", "senate", "house", "white house", "treasury",
        "commerce department", "state department" >>],
    [type |-> "POLICY", terms |-> <<
        "maga", "make america great again", "america first", "nafta",
        "usmca", "trade war", "section 232", "section 301",
        "reciprocal tariff", "national security tariff", "steel tariff",
        "aluminum tariff", "auto tariff", "trade deal", "trade agreement",
        "free trade", "protectionism", "tariff policy" >>],
    [type |-> "ECONOMIC_SECTOR", terms |-> <<
        "agriculture", "manufacturing", "automotive", "steel", "aluminum",
        "technology", "tech", "energy", "oil", "gas", "solar",
        "semiconductor", "electronics", "textile", "aerospace",
        "pharmaceuticals", "chemicals" >>] >>

(***************************************************************************)
(* CustomNER._build_patterns: the regular expressions of each type, each   *)
(* as the tree the matcher below walks (ic: compiled with IGNORECASE)      *)
(***************************************************************************)
entity_patterns == <<
    [type |-> "MONEY", patterns |-> <<
        \* \$\s*\d+(?:,\d{3})*(?:\.\d+)?\s*(?:billion|million|thousand|trillion|bn|mn|k|m|b)?
        [ic |-> TRUE, re |->
         Cat(<<Lit("$"), Rep(Cls(Whitespace), 0, Inf), Rep(Cls(Digits), 1, Inf), Rep(Cat(<<Lit(","), Rep(Cls(Digits), 3, 3)>>), 0, Inf), Rep(Cat(<<Lit("."), Rep(Cls(Digits), 1, Inf)>>), 0, 1), Rep(Cls(Whitespace), 0, Inf), Rep(Alt(<<Lit("billion"), Lit("million"), Lit("thousand"), Lit("trillion"), Lit("bn"), Lit("mn"), Lit("k"), Lit("m"), Lit("b")>>), 0, 1)>>)],
        \* \d+(?:,\d{3})*(?:\.\d+)?\s*(?:dollars|usd|yuan|euros?|pounds?)
        [ic |-> TRUE, re |->
         Cat(<<Rep(Cls(Digits), 1, Inf), Rep(Cat(<<Lit(","), Rep(Cls(Digits), 3, 3)>>), 0, Inf), Rep(Cat(<<Lit("."), Rep(Cls(Digits), 1, Inf)>>), 0, 1), Rep(Cls(Whitespace), 0, Inf), Alt(<<Lit("dollars"), Lit("usd"), Lit("yuan"), Cat(<<Lit("euro"), Rep(Lit("s"), 0, 1)>>), Cat(<<Lit("pound"), Rep(Lit("s"), 0, 1)>>)>>)>>)] >>],
    [type |-> "PERCENTAGE", patterns |-> <<
        \* \d+(?:\.\d+)?\s*%
        [ic |-> FALSE, re |->
         Cat(<<Rep(Cls(Digits), 1, Inf), Rep(Cat(<<Lit("."), Rep(Cls(Digits), 1, Inf)>>), 0, 1), Rep(Cls(Whitespace), 0, Inf), Lit("%")>>)],
        \* \d+(?:\.\d+)?\s*percent
        [ic |-> TRUE, re |->
         Cat(<<Rep(Cls(Digits), 1, Inf), Rep(Cat(<<Lit("."), Rep(Cls(Digits), 1, Inf)>>), 0, 1), Rep(Cls(Whitespace), 0, Inf), Lit("percent")>>)] >>],
    [type |-> "DATE", patterns |-> <<
        \* \b(?:january|february|march|april|may|june|july|august|september|october|november|december)\s+\d{1,2},?\s+\d{4}\b
        [ic |-> TRUE, re |->
         Cat(<<WordB, Alt(<<Lit("january"), Lit("february"), Lit("march"), Lit("april"), Lit("may"), Lit("june"), Lit("july"), Lit("august"), Lit("september"), Lit("october"), Lit("november"), Lit("december")>>), Rep(Cls(Whitespace), 1, Inf), Rep(Cls(Digits), 1, 2), Rep(Lit(","), 0, 1), Rep(Cls(Whitespace), 1, Inf), Rep(Cls(Digits), 4, 4), WordB>>)],
        \* \b\d{1,2}[/-]\d{1,2}[/-]\d{2,4}\b
        [ic |-> FALSE, re |->
         Cat(<<WordB, Rep(Cls(Digits), 1, 2), Cls({"/", "-"}), Rep(Cls(Digits), 1, 2), Cls({"/", "-"}), Rep(Cls(Digits), 2, 4), WordB>>)],
        \* \b(?:jan|feb|mar|apr|may|jun|jul|aug|sep|sept|oct|nov|dec)\.?\s+\d{1,2},?\s+\d{4}\b
        [ic |-> TRUE, re |->
         Cat(<<WordB, Alt(<<Lit("jan"), Lit("feb"), Lit("mar"), Lit("apr"), Lit("may"), Lit("jun"), Lit("jul"), Lit("aug"), Lit("sep"), Lit("sept"), Lit("oct"), Lit("nov"), Lit("dec")>>), Rep(Lit("."), 0, 1), Rep(Cls(Whitespace), 1, Inf), Rep(Cls(Digits), 1, 2), Rep(Lit(","), 0, 1), Rep(Cls(Whitespace), 1, Inf), Rep(Cls(Digits), 4, 4), WordB>>)],
        \* \b\d{4}\b(?=\s+(?:tariff|trade|deal))
        [ic |-> TRUE, re |->
         Cat(<<WordB, Rep(Cls(Digits), 4, 4), WordB, Ahead(Cat(<<Rep(Cls(Whitespace), 1, Inf), Alt(<<Lit("tariff"), Lit("trade"), Lit("deal")>>)>>))>>)] >>],
    [type |-> "TARIFF_RATE", patterns |-> <<
        \* \d+(?:\.\d+)?\s*%\s*tariff
        [ic |-> TRUE, re |->
         Cat(<<Rep(Cls(Digits), 1, Inf), Rep(Cat(<<Lit("."), Rep(Cls(Digits), 1, Inf)>>), 0, 1), Rep(Cls(Whitespace), 0, Inf), Lit("%"), Rep(Cls(Whitespace), 0, Inf), Lit("tariff")>>)],
        \* tariff\s+of\s+\d+(?:\.\d+)?\s*%
        [ic |-> TRUE, re |->
         Cat(<<Lit("tariff"), Rep(Cls(Whitespace), 1, Inf), Lit("of"), Rep(Cls(Whitespace), 1, Inf), Rep(Cls(Digits), 1, Inf), Rep(Cat(<<Lit("."), Rep(Cls(Digits), 1, Inf)>>), 0, 1), Rep(Cls(Whitespace), 0, Inf), Lit("%")>>)] >>],
    [type |-> "PRODUCT", patterns |-> <<
        \* \b(?:steel|aluminum|cars?|automobile|solar panels?|washing machines?|electronics?|semiconductors?|chips?|soybeans?|pork|beef|wheat|corn)\b
        [ic |-> TRUE, re |->
         Cat(<<WordB, Alt(<<Lit("steel"), Lit("aluminum"), Cat(<<Lit("car"), Rep(Lit("s"), 0, 1)>>), Lit("automobile"), Cat(<<Lit("solar panel"), Rep(Lit("s"), 0, 1)>>), Cat(<<Lit("washing machine"), Rep(Lit("s"), 0, 1)>>), Cat(<<Lit("electronic"), Rep(Lit("s"), 0, 1)>>), Cat(<<Lit("semiconductor"), Rep(Lit("s"), 0, 1)>>), Cat(<<Lit("chip"), Rep(Lit("s"), 0, 1)>>), Cat(<<Lit("soybean"), Rep(Lit("s"), 0, 1)>>), Lit("pork"), Lit("beef"), Lit("wheat"), Lit("corn")>>), WordB>>)] >>] >>

(***************************************************************************)
(* CustomNER.  An entity is the tuple <<type, text, start, end>>.          *)
(***************************************************************************)
EType(e) == e[1]
EText(e) == e[2]
EStart(e) == e[3]
EEnd(e) == e[4]

\* a loop that stops at the first occurrence it reports
match_term_first_only(text, text_lower, entity_type, entity, pos) ==
    LET hits == {i \in 0..(Len(text_lower) - Len(entity)) :
                    /\ Slice(text_lower, i, i + Len(entity)) = entity
                    /\ ~(i > 0 /\ isalnum(CharAt(text_lower, i - 1)))
                    /\ ~(i + Len(entity) < Len(text_lower) /\ isalnum(CharAt(text_lower, i + Len(entity))))}
        first == CHOOSE i \in hits : \A j \in hits : i <= j
    IN IF hits = {} THEN <<>>
       ELSE <<<<entity_type, Slice(text, first, first + Len(entity)), first, first + Len(entity)>>>>

\* _match_dictionary, the `while True` loop for one term; pos is the
\* result of text_lower.find(entity, start) of the iteration at hand
RECURSIVE match_term(_, _, _, _, _)
match_term(text, text_lower, entity_type, entity, pos) ==
    LET end_pos == pos + Len(entity)
    IN IF pos = -1 THEN <<>>
       ELSE IF pos > 0 /\ isalnum(CharAt(text_lower, pos - 1))
            THEN match_term(text, text_lower, entity_type, entity,
                            find(text_lower, entity, pos + 1))
       ELSE IF end_pos < Len(text_lower) /\ isalnum(CharAt(text_lower, end_pos))
            THEN match_term(text, text_lower, entity_type, entity,
                            find(text_lower, entity, pos + 1))
       ELSE <<<<entity_type, Slice(text, pos, end_pos), pos, end_pos>>>>
            \o match_term(text, text_lower, entity_type, entity,
                          find(text_lower, entity, end_pos))

\* _match_dictionary, `for entity in dictionary`
RECURSIVE match_terms(_, _, _, _, _)
match_terms(text, text_lower, entity_type, terms, k) ==
    IF k > Len(terms) THEN <<>>
    ELSE match_term(text, text_lower, entity_type, terms[k], find(text_lower, terms[k], 0))
         \o match_terms(text, text_lower, entity_type, terms, k + 1)

\* _match_dictionary, `for entity_type, dictionary in ...items()`
RECURSIVE match_dictionaries(_, _, _)
match_dictionaries(text, text_lower, d) ==
    IF d > Len(entity_dictionaries) THEN <<>>
    ELSE match_terms(text, text_lower, entity_dictionaries[d].type, entity_dictionaries[d].terms, 1)
         \o match_dictionaries(text, text_lower, d + 1)

match_dictionary(text) == match_dictionaries(text, lower(text), 1)

\* _match_patterns, `for match in pattern.finditer(text)`: an entity per
\* match
match_pattern(text, entity_type, matches) ==
    [m \in 1..Len(matches) |->
        <<entity_type, Slice(text, matches[m].start, matches[m].end),
          matches[m].start, matches[m].end>>]

RECURSIVE match_pattern_list(_, _, _, _)
match_pattern_list(text, entity_type, pattern_list, k) ==
    IF k > Len(pattern_list) THEN <<>>
    ELSE match_pattern(text, entity_type,
                       finditer(pattern_list[k].re, text, pattern_list[k].ic))
         \o match_pattern_list(text, entity_type, pattern_list, k + 1)

RECURSIVE match_pattern_types(_, _)
match_pattern_types(text, d) ==
    IF d > Len(entity_patterns) THEN <<>>
    ELSE match_pattern_list(text, entity_patterns[d].type, entity_patterns[d].patterns, 1)
         \o match_pattern_types(text, d + 1)

match_patterns(text) == match_pattern_types(text, 1)

\* _capitalize_entity
Acronyms == {"USA", "UK", "EU", "UN", "WTO", "IMF", "NATO", "OECD",
             "CNN", "BBC", "ABC", "NBC", "NYT", "WSJ", "MSNBC", "CNBC"}

\* a normalization without the acronym list
capitalize_entity_no_acronyms(text, entity_type) ==
    IF entity_type \in {"PERSON", "LOCATION", "ORGANIZATION"} THEN title(text) ELSE text

capitalize_entity(text, entity_type) ==
    IF entity_type \in {"MONEY", "PERCENTAGE", "DATE", "TARIFF_RATE"} THEN text
    ELSE IF entity_type \in {"PERSON", "LOCATION", "ORGANIZATION"}
         THEN (IF upper(text) \in Acronyms THEN upper(text)
               ELSE IF lower(text) \in {"usmca", "nafta"} THEN upper(text)
               ELSE title(text))
    ELSE text

\* a sort key with the length ascending: (start, end - start)
sort_key_less_shorter_first(a, b) ==
    \/ EStart(a) < EStart(b)
    \/ EStart(a) = EStart(b) /\ (EEnd(a) - EStart(a)) < (EEnd(b) - EStart(b))

\* _resolve_overlaps, the sort key (start, -(end - start)) compared as a
\* Python tuple
sort_key_less(a, b) ==
    \/ EStart(a) < EStart(b)
    \/ EStart(a) = EStart(b) /\ -(EEnd(a) - EStart(a)) < -(EEnd(b) - EStart(b))

\* sorted(): stable, an element goes after the elements whose key is not
\* greater than its own
RECURSIVE insert_sorted(_, _)
insert_sorted(sorted, x) ==
    IF sorted = <<>> THEN <<x>>
    ELSE IF sort_key_less(x, Head(sorted)) THEN <<x>> \o sorted
    ELSE <<Head(sorted)>> \o insert_sorted(Tail(sorted), x)

RECURSIVE sorted_entities(_, _)
sorted_entities(entities, n) ==
    IF n = 0 THEN <<>>
    ELSE insert_sorted(sorted_entities(entities, n - 1), entities[n])

\* a keep test that never looks at the end of the last kept entity
keeps_any(start, last_end) == start >= -1

\* _resolve_overlaps, the test that keeps an entity
keeps(start, last_end) == start >= last_end

\* _resolve_overlaps, the sweep over the sorted entities
RECURSIVE sweep(_, _, _)
sweep(sorted, k, last_end) ==
    IF k > Len(sorted) THEN <<>>
    ELSE IF keeps(EStart(sorted[k]), last_end)
         THEN <<sorted[k]>> \o sweep(sorted, k + 1, EEnd(sorted[k]))
         ELSE sweep(sorted, k + 1, last_end)

resolve_overlaps(entities) ==
    IF entities = <<>> THEN <<>>
    ELSE sweep(sorted_entities(entities, Len(entities)), 1, -1)

\* extract_entities_with_positions, `for ... in resolved_entities`: the
\* text of each entity normalized, the offsets kept
normalized_with_positions(resolved_entities) ==
    [k \in 1..Len(resolved_entities) |->
        <<EType(resolved_entities[k]),
          capitalize_entity(EText(resolved_entities[k]), EType(resolved_entities[k])),
          EStart(resolved_entities[k]), EEnd(resolved_entities[k])>>]

\* extract_entities_with_positions
extract_entities_with_positions(text) ==
    IF text = "" THEN <<>>
    ELSE normalized_with_positions(
             resolve_overlaps(match_dictionary(text) \o match_patterns(text)))

\* a listing that keeps the matched text as it is
normalized_as_matched(resolved_entities) ==
    [k \in 1..Len(resolved_entities) |->
        <<EType(resolved_entities[k]), EText(resolved_entities[k])>>]

\* extract_entities, `for ... in resolved_entities`: the text of each
\* entity normalized, the offsets dropped
normalized(resolved_entities) ==
    [k \in 1..Len(resolved_entities) |->
        <<EType(resolved_entities[k]),
          capitalize_entity(EText(resolved_entities[k]), EType(resolved_entities[k]))>>]

\* extract_entities
extract_entities(text) ==
    IF text = "" THEN <<>>
    ELSE normalized(resolve_overlaps(match_dictionary(text) \o match_patterns(text)))

(***************************************************************************)
(* RelationExtractor._build_relation_patterns: the rule table, in source   *)
(* order; each connecting word is a regular expression (compiled with      *)
(* IGNORECASE)                                                             *)
(***************************************************************************)
relation_patterns == <<
    [subject_types |-> <<"PERSON", "ORGANIZATION", "LOCATION">>,
     predicate |-> "ANNOUNCES",
     object_types |-> <<"POLICY", "TARIFF_RATE", "MONEY", "PERCENTAGE">>,
     connecting_words |-> <<
         Cat(<<Lit("announce"), Rep(Cls({"s", "d"}), 0, 1)>>),
         Cat(<<Lit("propose"), Rep(Cls({"s", "d"}), 0, 1)>>),
         Cat(<<Lit("introduce"), Rep(Cls({"s", "d"}), 0, 1)>>),
         Cat(<<Lit("implement"), Rep(Cls({"s", "d"}), 0, 1)>>),
         Cat(<<Lit("impose"), Rep(Cls({"s", "d"}), 0, 1)>>),
         Cat(<<Lit("declare"), Rep(Cls({"s", "d"}), 0, 1)>>) >>],
    [subject_types |-> <<"PERSON", "ORGANIZATION", "LOCATION">>,
     predicate |-> "INCREASES",
     object_types |-> <<"TARIFF_RATE", "PERCENTAGE", "MONEY">>,
     connecting_words |-> <<
         Cat(<<Lit("increase"), Rep(Cls({"s", "d"}), 0, 1)>>),
         Cat(<<Lit("raise"), Rep(Cls({"s", "d"}), 0, 1)>>),
         Cat(<<Lit("boost"), Rep(Cls({"s", "d"}), 0, 1)>>),
         Cat(<<Lit("hike"), Rep(Cls({"s", "d"}), 0, 1)>>),
         Lit("up"),
         Cat(<<Lit("raise"), Rep(Cls({"s", "d"}), 0, 1)>>) >>],
    [subject_types |-> <<"PERSON", "ORGANIZATION", "LOCATION">>,
     predicate |-> "DECREASES",
     object_types |-> <<"TARIFF_RATE", "PERCENTAGE", "MONEY">>,
     connecting_words |-> <<
         Cat(<<Lit("decrease"), Rep(Cls({"s", "d"}), 0, 1)>>),
         Cat(<<Lit("reduce"), Rep(Cls({"s", "d"}), 0, 1)>>),
         Cat(<<Lit("lower"), Rep(Cls({"s", "d"}), 0, 1)>>),
         Cat(<<Lit("cut"), Rep(Lit("s"), 0, 1)>>),
         Cat(<<Lit("slash"), Rep(Lit("es"), 0, 1)>>),
         Cat(<<Lit("drop"), Rep(Lit("s"), 0, 1)>>) >>],
    [subject_types |-> <<"ORGANIZATION">>,
     predicate |-> "REPORTS",
     object_types |-> <<"POLICY", "PERSON", "LOCATION", "ORGANIZATION">>,
     connecting_words |-> <<
         Cat(<<Lit("report"), Rep(Cls({"s", "d"}), 0, 1)>>),
         Cat(<<Lit("state"), Rep(Cls({"s", "d"}), 0, 1)>>),
         Cat(<<Lit("announce"), Rep(Cls({"s", "d"}), 0, 1)>>),
         Cat(<<Lit("say"), Rep(Lit("s"), 0, 1)>>),
         Cat(<<Lit("claim"), Rep(Cls({"s", "d"}), 0, 1)>>),
         Cat(<<Lit("indicate"), Rep(Cls({"s", "d"}), 0, 1)>>) >>],
    [subject_types |-> <<"LOCATION", "ORGANIZATION">>,
     predicate |-> "TRADES_WITH",
     object_types |-> <<"LOCATION", "ORGANIZATION">>,
     connecting_words |-> <<
         Cat(<<Lit("trade"), Rep(Cls({"s", "d"}), 0, 1), Rep(Cls(Whitespace), 1, Inf), Lit("with")>>),
         Cat(<<Lit("trading"), Rep(Cls(Whitespace), 1, Inf), Lit("with")>>),
         Cat(<<Lit("export"), Rep(Cls({"s", "d"}), 0, 1), Rep(Cls(Whitespace), 1, Inf), Lit("to")>>),
         Cat(<<Lit("import"), Rep(Cls({"s", "d"}), 0, 1), Rep(Cls(Whitespace), 1, Inf), Lit("from")>>),
         Cat(<<Lit("deal"), Rep(Lit("s"), 0, 1), Rep(Cls(Whitespace), 1, Inf), Lit("with")>>) >>],
    [subject_types |-> <<"POLICY", "TARIFF_RATE", "PERSON">>,
     predicate |-> "IMPACTS",
     object_types |-> <<"ECONOMIC_SECTOR", "LOCATION", "ORGANIZATION", "PRODUCT">>,
     connecting_words |-> <<
         Cat(<<Lit("impact"), Rep(Cls({"s", "d"}), 0, 1)>>),
         Cat(<<Lit("affect"), Rep(Cls({"s", "d"}), 0, 1)>>),
         Cat(<<Lit("influence"), Rep(Cls({"s", "d"}), 0, 1)>>),
         Cat(<<Lit("hurt"), Rep(Lit("s"), 0, 1)>>),
         Cat(<<Lit("harm"), Rep(Lit("s"), 0, 1)>>),
         Cat(<<Lit("damage"), Rep(Cls({"s", "d"}), 0, 1)>>),
         Cat(<<Lit("benefit"), Rep(Lit("s"), 0, 1)>>),
         Cat(<<Lit("help"), Rep(Lit("s"), 0, 1)>>) >>],
    [subject_types |-> <<"PERSON", "ORGANIZATION", "LOCATION">>,
     predicate |-> "SUPPORTS",
     object_types |-> <<"POLICY", "PERSON">>,
     connecting_words |-> <<
         Cat(<<Lit("support"), Rep(Lit("s"), 0, 1)>>),
         Cat(<<Lit("back"), Rep(Lit("s"), 0, 1)>>),
         Cat(<<Lit("endorse"), Rep(Cls({"s", "d"}), 0, 1)>>),
         Cat(<<Lit("favor"), Rep(Lit("s"), 0, 1)>>),
         Cat(<<Lit("promote"), Rep(Cls({"s", "d"}), 0, 1)>>),
         Cat(<<Lit("champion"), Rep(Lit("s"), 0, 1)>>) >>],
    [subject_types |-> <<"PERSON", "ORGANIZATION", "LOCATION">>,
     predicate |-> "OPPOSES",
     object_types |-> <<"POLICY", "PERSON">>,
     connecting_words |-> <<
         Cat(<<Lit("oppose"), Rep(Cls({"s", "d"}), 0, 1)>>),
         Lit("against"),
         Cat(<<Lit("reject"), Rep(Cls({"s", "d"}), 0, 1)>>),
         Cat(<<Lit("resist"), Rep(Lit("s"), 0, 1)>>),
         Cat(<<Lit("fight"), Rep(Lit("s"), 0, 1)>>),
         Cat(<<Lit("criticize"), Rep(Cls({"s", "d"}), 0, 1)>>),
         Cat(<<Lit("condemn"), Rep(Lit("s"), 0, 1)>>) >>],
    [subject_types |-> <<"PERSON", "LOCATION", "ORGANIZATION">>,
     predicate |-> "NEGOTIATES",
     object_types |-> <<"POLICY", "PERSON", "LOCATION">>,
     connecting_words |-> <<
         Cat(<<Lit("negotiate"), Rep(Cls({"s", "d"}), 0, 1)>>),
         Cat(<<Lit("discuss"), Rep(Lit("es"), 0, 1)>>),
         Cat(<<Lit("talk"), Rep(Lit("s"), 0, 1), Rep(Cls(Whitespace), 1, Inf), Lit("with")>>),
         Cat(<<Lit("meet"), Rep(Lit("s"), 0, 1), Rep(Cls(Whitespace), 1, Inf), Lit("with")>>),
         Cat(<<Lit("negotiating"), Rep(Cls(Whitespace), 1, Inf), Lit("with")>>) >>],
    [subject_types |-> <<"POLICY", "TARIFF_RATE", "PERSON">>,
     predicate |-> "TARGETS",
     object_types |-> <<"LOCATION", "PRODUCT", "ECONOMIC_SECTOR", "ORGANIZATION">>,
     connecting_words |-> <<
         Cat(<<Lit("target"), Rep(Lit("s"), 0, 1)>>),
         Cat(<<Lit("aim"), Rep(Lit("s"), 0, 1), Rep(Cls(Whitespace), 1, Inf), Lit("at")>>),
         Cat(<<Lit("focus"), Rep(Lit("es"), 0, 1), Rep(Cls(Whitespace), 1, Inf), Lit("on")>>),
         Cat(<<Lit("directed"), Rep(Cls(Whitespace), 1, Inf), Lit("at")>>),
         Lit("against") >>],
    [subject_types |-> <<"PERSON">>,
     predicate |-> "LEADS",
     object_types |-> <<"ORGANIZATION", "LOCATION">>,
     connecting_words |-> <<
         Cat(<<Lit("lead"), Rep(Lit("s"), 0, 1)>>),
         Cat(<<Lit("head"), Rep(Lit("s"), 0, 1)>>),
         Cat(<<Lit("run"), Rep(Lit("s"), 0, 1)>>),
         Cat(<<Lit("president"), Rep(Cls(Whitespace), 1, Inf), Lit("of")>>),
         Cat(<<Lit("leader"), Rep(Cls(Whitespace), 1, Inf), Lit("of")>>),
         Cat(<<Lit("prime"), Rep(Cls(Whitespace), 1, Inf), Lit("minister"), Rep(Cls(Whitespace), 1, Inf), Lit("of")>>) >>],
    [subject_types |-> <<"LOCATION", "ORGANIZATION">>,
     predicate |-> "EXPORTS",
     object_types |-> <<"PRODUCT", "ECONOMIC_SECTOR", "MONEY">>,
     connecting_words |-> <<
         Cat(<<Lit("export"), Rep(Lit("s"), 0, 1)>>),
         Cat(<<Lit("sell"), Rep(Lit("s"), 0, 1)>>),
         Cat(<<Lit("ship"), Rep(Lit("s"), 0, 1)>>),
         Cat(<<Lit("send"), Rep(Lit("s"), 0, 1)>>) >>],
    [subject_types |-> <<"LOCATION", "ORGANIZATION">>,
     predicate |-> "IMPORTS",
     object_types |-> <<"PRODUCT", "ECONOMIC_SECTOR", "MONEY">>,
     connecting_words |-> <<
         Cat(<<Lit("import"), Rep(Lit("s"), 0, 1)>>),
         Cat(<<Lit("buy"), Rep(Lit("s"), 0, 1)>>),
         Cat(<<Lit("purchase"), Rep(Lit("s"), 0, 1)>>),
         Cat(<<Lit("receive"), Rep(Lit("s"), 0, 1)>>) >>] >>

\* RelationExtractor._infer_relation: the type-pair table
type_relations == {
    [type1 |-> "PERSON", type2 |-> "POLICY", predicate |-> "ASSOCIATED_WITH"],
    [type1 |-> "PERSON", type2 |-> "LOCATION", predicate |-> "ASSOCIATED_WITH"],
    [type1 |-> "PERSON", type2 |-> "ORGANIZATION", predicate |-> "ASSOCIATED_WITH"],
    [type1 |-> "LOCATION", type2 |-> "LOCATION", predicate |-> "RELATED_TO"],
    [type1 |-> "LOCATION", type2 |-> "POLICY", predicate |-> "RELATED_TO"],
    [type1 |-> "LOCATION", type2 |-> "ECONOMIC_SECTOR", predicate |-> "HAS_SECTOR"],
    [type1 |-> "LOCATION", type2 |-> "PRODUCT", predicate |-> "PRODUCES"],
    [type1 |-> "ORGANIZATION", type2 |-> "POLICY", predicate |-> "RELATED_TO"],
    [type1 |-> "ORGANIZATION", type2 |-> "LOCATION", predicate |-> "OPERATES_IN"],
    [type1 |-> "POLICY", type2 |-> "ECONOMIC_SECTOR", predicate |-> "AFFECTS"],
    [type1 |-> "POLICY", type2 |-> "PRODUCT", predicate |-> "AFFECTS"],
    [type1 |-> "TARIFF_RATE", type2 |-> "PRODUCT", predicate |-> "APPLIES_TO"],
    [type1 |-> "TARIFF_RATE", type2 |-> "LOCATION", predicate |-> "APPLIES_TO"],
    [type1 |-> "PERCENTAGE", type2 |-> "PRODUCT", predicate |-> "APPLIES_TO"],
    [type1 |-> "MONEY", type2 |-> "LOCATION", predicate |-> "RELATED_TO"] }

(***************************************************************************)
(* RelationExtractor.  A triple is the tuple <<subject, predicate, object>>*)
(***************************************************************************)
InList(x, list) == \E k \in 1..Len(list) : list[k] = x

\* TLC leaves the arguments of an operator unevaluated until they are used;
\* Now(v, e) is e with v evaluated first, so that the accumulator of a loop
\* is computed before the next iteration starts
Now(v, e) == IF v = v THEN e ELSE e

\* _find_connecting_phrase: does one of the connecting words match the
\* lower-cased text between the two offsets
find_connecting_phrase(text, start_pos, end_pos, connecting_words) ==
    LET middle_text == lower(Slice(text, start_pos, end_pos))
    IN \E k \in 1..Len(connecting_words) : search(connecting_words[k], middle_text, TRUE)

\* extract_relations, the test that skips a pair: same index, or the
\* subject does not start before the object
skips_pair(entities, i, j) == i = j \/ EStart(entities[i]) >= EStart(entities[j])

\* a dedup key that leaves the predicate out
triple_key_no_predicate(subj_text, predicate, obj_text) ==
    <<lower(subj_text), "", lower(obj_text)>>

\* extract_relations, the key under which an emitted triple is remembered
triple_key(subj_text, predicate, obj_text) ==
    <<lower(subj_text), predicate, lower(obj_text)>>

\* the innermost loop body without the seen_triples test
relation_step_no_seen_check(text, subj, obj, pattern, acc) ==
    IF /\ InList(EType(subj), pattern.subject_types)
       /\ InList(EType(obj), pattern.object_types)
       /\ find_connecting_phrase(text, EEnd(subj), EStart(obj), pattern.connecting_words)
    THEN [triples |-> Append(acc.triples, <<EText(subj), pattern.predicate, EText(obj)>>),
          seen_triples |-> acc.seen_triples]
    ELSE acc

\* extract_relations, the body of the innermost loop for the subject, the
\* object and one rule; acc is [triples, seen_triples]
relation_step(text, subj, obj, pattern, acc) ==
    IF /\ InList(EType(subj), pattern.subject_types)
       /\ InList(EType(obj), pattern.object_types)
       /\ find_connecting_phrase(text, EEnd(subj), EStart(obj), pattern.connecting_words)
    THEN IF triple_key(EText(subj), pattern.predicate, EText(obj)) \notin acc.seen_triples
         THEN [triples |-> Append(acc.triples,
                                  <<EText(subj), pattern.predicate, EText(obj)>>),
               seen_triples |-> acc.seen_triples
                   \cup {triple_key(EText(subj), pattern.predicate, EText(obj))}]
         ELSE acc
    ELSE acc

\* extract_relations, `for pattern in self.relation_patterns`
RECURSIVE rules_loop(_, _, _, _, _, _)
rules_loop(text, entities, i, j, r, acc) ==
    IF r > Len(relation_patterns) THEN acc
    ELSE Now(acc, rules_loop(text, entities, i, j, r + 1,
                 relation_step(text, entities[i], entities[j], relation_patterns[r], acc)))

\* extract_relations, `for j, (...) in enumerate(entities)`
RECURSIVE objects_loop(_, _, _, _, _)
objects_loop(text, entities, i, j, acc) ==
    IF j > Len(entities) THEN acc
    ELSE IF skips_pair(entities, i, j) THEN objects_loop(text, entities, i, j + 1, acc)
    ELSE Now(acc, objects_loop(text, entities, i, j + 1,
                 rules_loop(text, entities, i, j, 1, acc)))

\* extract_relations, `for i, (...) in enumerate(entities)`
RECURSIVE subjects_loop(_, _, _, _)
subjects_loop(text, entities, i, acc) ==
    IF i > Len(entities) THEN acc
    ELSE Now(acc, subjects_loop(text, entities, i + 1,
                 objects_loop(text, entities, i, 1, acc)))

\* extract_relations, from the entities on
match_relations(text, entities) ==
    IF Len(entities) < 2 THEN <<>>
    ELSE subjects_loop(text, entities, 1, [triples |-> <<>>, seen_triples |-> {}]).triples

extract_relations(text) ==
    IF text = "" THEN <<>>
    ELSE match_relations(text, extract_entities_with_positions(text))

\* a lookup that ignores the direction of the pair
infer_relation_either_direction(type1, type2) ==
    IF \E row \in type_relations : {row.type1, row.type2} = {type1, type2}
    THEN (CHOOSE row \in type_relations : {row.type1, row.type2} = {type1, type2}).predicate
    ELSE "MENTIONED_WITH"

\* _infer_relation
infer_relation(type1, type2) ==
    IF \E row \in type_relations : row.type1 = type1 /\ row.type2 = type2
    THEN (CHOOSE row \in type_relations : row.type1 = type1 /\ row.type2 = type2).predicate
    ELSE "MENTIONED_WITH"

\* a skip test that lets the later entity be the subject
skips_simple_pair_same_index(i, j) == i = j

\* extract_simple_triples, the test that skips a pair of indices
skips_simple_pair(i, j) == i >= j

\* extract_simple_triples, the key under which a used pair is remembered
pair_key(text1, text2) == <<lower(text1), lower(text2)>>

\* extract_simple_triples, the body of the inner loop; acc is
\* [triples, seen_pairs]
simple_step(entities, i, j, acc) ==
    IF pair_key(entities[i][2], entities[j][2]) \in acc.seen_pairs THEN acc
    ELSE LET predicate == infer_relation(entities[i][1], entities[j][1])
         IN IF predicate # ""
            THEN [triples |-> Append(acc.triples, <<entities[i][2], predicate, entities[j][2]>>),
                  seen_pairs |-> acc.seen_pairs \cup {pair_key(entities[i][2], entities[j][2])}]
            ELSE acc

\* extract_simple_triples, `for j, (type2, text2) in enumerate(entities)`
RECURSIVE simple_inner_loop(_, _, _, _)
simple_inner_loop(entities, i, j, acc) ==
    IF j > Len(entities) THEN acc
    ELSE IF skips_simple_pair(i, j) THEN simple_inner_loop(entities, i, j + 1, acc)
    ELSE Now(acc, simple_inner_loop(entities, i, j + 1, simple_step(entities, i, j, acc)))

\* extract_simple_triples, `for i, (type1, text1) in enumerate(entities)`
RECURSIVE simple_outer_loop(_, _, _)
simple_outer_loop(entities, i, acc) ==
    IF i > Len(entities) THEN acc
    ELSE Now(acc, simple_outer_loop(entities, i + 1, simple_inner_loop(entities, i, 1, acc)))

\* extract_simple_triples, from the entities on
pair_triples(entities) ==
    IF Len(entities) < 2 THEN <<>>
    ELSE simple_outer_loop(entities, 1, [triples |-> <<>>, seen_pairs |-> {}]).triples

extract_simple_triples(text) ==
    IF text = "" THEN <<>>
    ELSE pair_triples(extract_entities(text))

(***************************************************************************)
(* networkx.MultiDiGraph, as far as the store uses it: a node -> attribute *)
(* map and a list of edges (parallel edges are kept)                       *)
(***************************************************************************)
MultiDiGraph == [node |-> <<>>, edge |-> <<>>]

\* add_node(n, entity_type=t): creates the node, or updates the attribute
\* of a node that is already there
add_node(g, n, t) == [g EXCEPT !.node = DictSet(g.node, n, t)]

\* (mutant) a simple digraph: a second edge u -> v replaces the first
add_edge_simple(g, u, v, p) ==
    IF \E i \in 1..Len(g.edge) : g.edge[i].u = u /\ g.edge[i].v = v
    THEN [g EXCEPT !.edge = [i \in 1..Len(g.edge) |->
                               IF g.edge[i].u = u /\ g.edge[i].v = v
                               THEN [u |-> u, v |-> v, relation |-> p] ELSE g.edge[i]]]
    ELSE [g EXCEPT !.edge = Append(g.edge, [u |-> u, v |-> v, relation |-> p])]

\* add_edge(u, v, relation=p): always a new edge
add_edge(g, u, v, p) == [g EXCEPT !.edge = Append(g.edge, [u |-> u, v |-> v, relation |-> p])]

number_of_nodes(g) == Cardinality(DOMAIN g.node)
number_of_edges(g) == Len(g.edge)

(***************************************************************************)
(* KnowledgeGraph                                                          *)
(***************************************************************************)
\* __init__
KnowledgeGraph == [graph |-> MultiDiGraph, triples |-> <<>>, entity_types |-> <<>>]

\* an entry of the triple log: add_triple appends a tuple, json.load
\* yields lists
TupleEntry(s, p, o) == [kind |-> "tuple", s |-> s, p |-> p, o |-> o]
ListEntry(s, p, o) == [kind |-> "list", s |-> s, p |-> p, o |-> o]

\* an add_triple that records the object's type before the subject's
add_triple_subject_type_last(k, s, p, o, st, ot) ==
    LET g1 == add_node(k.graph, s, PyOr(st, "UNKNOWN"))
        g2 == add_node(g1, o, PyOr(ot, "UNKNOWN"))
        g3 == add_edge(g2, s, o, p)
        t1 == IF Truthy(ot) THEN DictSet(k.entity_types, o, ot) ELSE k.entity_types
        t2 == IF Truthy(st) THEN DictSet(t1, s, st) ELSE t1
    IN [graph |-> g3, triples |-> Append(k.triples, TupleEntry(s, p, o)), entity_types |-> t2]

add_triple(k, s, p, o, st, ot) ==
    LET g1 == add_node(k.graph, s, PyOr(st, "UNKNOWN"))
        g2 == add_node(g1, o, PyOr(ot, "UNKNOWN"))
        g3 == add_edge(g2, s, o, p)
        t1 == IF Truthy(st) THEN DictSet(k.entity_types, s, st) ELSE k.entity_types
        t2 == IF Truthy(ot) THEN DictSet(t1, o, ot) ELSE t1
    IN [graph |-> g3, triples |-> Append(k.triples, TupleEntry(s, p, o)), entity_types |-> t2]

\* add_triples_batch: add_triple without types, in list order
RECURSIVE add_triples_batch(_, _)
add_triples_batch(k, batch) ==
    IF batch = <<>> THEN k
    ELSE add_triples_batch(add_triple(k, Head(batch)[1], Head(batch)[2], Head(batch)[3], NoneV, NoneV),
                           Tail(batch))

\* get_entity_types_distribution: type -> number of nodes with that attribute
get_entity_types_distribution(k) ==
    LET attrs == {k.graph.node[n] : n \in DOMAIN k.graph.node}
    IN [t \in attrs |-> Cardinality({n \in DOMAIN k.graph.node : k.graph.node[n] = t})]

(***************************************************************************)
(* save_graph / load_graph                                                 *)
(***************************************************************************)
NoFile == [exists |-> FALSE]

\* json.dump: tuples and lists are both written as arrays
JsonArray(e) == [kind |-> "array", s |-> e.s, p |-> e.p, o |-> e.o]
JsonDump(data) ==
    [exists |-> TRUE,
     triples |-> [i \in 1..Len(data.triples) |-> JsonArray(data.triples[i])],
     entity_types |-> data.entity_types]

\* json.load: arrays are read as lists
JsonLoad(f) ==
    [triples |-> [i \in 1..Len(f.triples) |-> ListEntry(f.triples[i].s, f.triples[i].p, f.triples[i].o)],
     entity_types |-> f.entity_types]

save_graph(k) == JsonDump([triples |-> k.triples, entity_types |-> k.entity_types])

\* the rebuild loop of load_graph: `for ... in self.triples` reads the list
\* by index while add_triple appends to the same list; an append beyond
\* MemCap entries fails with MemoryError
RECURSIVE load_loop(_, _, _)
load_loop(k, i, calls) ==
    IF i > Len(k.triples) THEN [kg |-> k, calls |-> calls, err |-> "ok"]
    ELSE IF Len(k.triples) >= MemCap THEN [kg |-> k, calls |-> calls, err |-> "MemoryError"]
    ELSE LET e == k.triples[i]
         IN load_loop(add_triple(k, e.s, e.p, e.o,
                                 DictGet(k.entity_types, e.s), DictGet(k.entity_types, e.o)),
                      i + 1, calls + 1)

load_graph(k, f) ==
    LET data == JsonLoad(f)
        k0 == [graph |-> MultiDiGraph, triples |-> data.triples, entity_types |-> data.entity_types]
    IN load_loop(k0, 1, 0)

(***************************************************************************)
(* Queries on the store                                                    *)
(***************************************************************************)
\* the nodes in insertion order: add_triple adds the subject, then the
\* object, of every edge
RECURSIVE node_order(_, _, _)
node_order(edges, i, acc) ==
    IF i > Len(edges) THEN acc
    ELSE LET a1 == IF InList(edges[i].u, acc) THEN acc ELSE Append(acc, edges[i].u)
             a2 == IF InList(edges[i].v, a1) THEN a1 ELSE Append(a1, edges[i].v)
         IN node_order(edges, i + 1, a2)

nodes(g) == node_order(g.edge, 1, <<>>)

\* graph.successors(n) = graph.neighbors(n), graph.predecessors(n)
successors(g, n) == {g.edge[i].v : i \in {j \in 1..Len(g.edge) : g.edge[j].u = n}}
predecessors(g, n) == {g.edge[i].u : i \in {j \in 1..Len(g.edge) : g.edge[j].v = n}}

\* graph.out_degree(n), graph.in_degree(n), graph.degree(n): parallel edges
\* count, a self-loop counts on both sides
\* an out-degree that counts neighbours instead of edges
out_degree_of_simple_graph(g, n) == Cardinality(successors(g, n))

out_degree(g, n) == Cardinality({i \in 1..Len(g.edge) : g.edge[i].u = n})
in_degree(g, n) == Cardinality({i \in 1..Len(g.edge) : g.edge[i].v = n})
degree(g, n) == out_degree(g, n) + in_degree(g, n)

\* sorted(scores.items(), key=lambda x: x[1], reverse=True): stable, so
\* equal scores stay in node order
RECURSIVE insert_by_score(_, _)
insert_by_score(sorted, x) ==
    IF sorted = <<>> THEN <<x>>
    ELSE IF Head(sorted)[2] >= x[2] THEN <<Head(sorted)>> \o insert_by_score(Tail(sorted), x)
    ELSE <<x>> \o sorted

RECURSIVE sorted_by_score(_, _)
sorted_by_score(items, n) ==
    IF n = 0 THEN <<>> ELSE insert_by_score(sorted_by_score(items, n - 1), items[n])

\* get_top_entities; the rankings of pagerank and betweenness are
\* networkx's and are not computed here
get_top_entities(k, n, metric) ==
    IF number_of_nodes(k.graph) = 0 THEN [err |-> "ok", ret |-> <<>>]
    ELSE IF metric \in {"degree", "in_degree", "out_degree"}
    THEN LET ns == nodes(k.graph)
             scores == [i \in 1..Len(ns) |->
                          <<ns[i], CASE metric = "degree" -> degree(k.graph, ns[i])
                                     [] metric = "in_degree" -> in_degree(k.graph, ns[i])
                                     [] OTHER -> out_degree(k.graph, ns[i])>>]
             ranked == sorted_by_score(scores, Len(scores))
         IN [err |-> "ok", ret |-> SubSeq(ranked, 1, IF n < Len(ranked) THEN n ELSE Len(ranked))]
    ELSE IF metric \in {"pagerank", "betweenness"}
    THEN [err |-> "ok", ret |-> <<metric>>]
    ELSE [err |-> "ValueError"]

\* the weakly connected component of the nodes in c: closed under edges in
\* either direction
RECURSIVE component(_, _)
component(g, c) ==
    LET more == c \cup UNION {successors(g, n) \cup predecessors(g, n) : n \in c}
    IN IF more = c THEN c ELSE component(g, more)

weakly_connected_components(g) == {component(g, {n}) : n \in DOMAIN g.node}

\* get_all_relations
get_all_relations(k) == {k.graph.edge[i].relation : i \in 1..Len(k.graph.edge)}

\* max(values), sum(values)
Max(S) == CHOOSE x \in S : \A y \in S : y <= x

RECURSIVE sum(_)
sum(values) == IF values = <<>> THEN 0 ELSE Head(values) + sum(Tail(values))

\* a get_statistics that stops after the six unconditional entries
get_statistics_basic_only(k) ==
    LET g == k.graph
        n == number_of_nodes(g)
        m == number_of_edges(g)
    IN IF n = 0 THEN [err |-> "NetworkXPointlessConcept"]
       ELSE [err |-> "ok",
             ret |-> [num_nodes |-> n,
                      num_edges |-> m,
                      num_triples |-> Len(k.triples),
                      num_relations |-> Cardinality(get_all_relations(k)),
                      density |-> IF n <= 1 THEN <<0, 1>> ELSE <<m, n * (n - 1)>>,
                      is_connected |-> Cardinality(weakly_connected_components(g)) = 1]]

\* get_statistics; a quotient a / b is kept as <<a, b>>.
\* nx.is_weakly_connected raises NetworkXPointlessConcept on a graph
\* without nodes; nx.density is 0 for fewer than two nodes
get_statistics(k) ==
    LET g == k.graph
        n == number_of_nodes(g)
        m == number_of_edges(g)
        ns == nodes(g)
    IN IF n = 0 THEN [err |-> "NetworkXPointlessConcept"]
       ELSE [err |-> "ok",
             ret |-> [num_nodes |-> n,
                      num_edges |-> m,
                      num_triples |-> Len(k.triples),
                      num_relations |-> Cardinality(get_all_relations(k)),
                      density |-> IF n <= 1 THEN <<0, 1>> ELSE <<m, n * (n - 1)>>,
                      is_connected |-> Cardinality(weakly_connected_components(g)) = 1,
                      num_weakly_connected_components |-> Cardinality(weakly_connected_components(g)),
                      largest_component_size |->
                          Max({Cardinality(c) : c \in weakly_connected_components(g)}),
                      avg_degree |-> <<sum([i \in 1..Len(ns) |-> degree(g, ns[i])]), Len(ns)>>,
                      max_degree |-> Max({degree(g, x) : x \in DOMAIN g.node}),
                      avg_in_degree |-> <<sum([i \in 1..Len(ns) |-> in_degree(g, ns[i])]), Len(ns)>>,
                      avg_out_degree |-> <<sum([i \in 1..Len(ns) |-> out_degree(g, ns[i])]), Len(ns)>>]]

\* get_neighbors, one side: the edges between entity and its neighbours,
\* neighbour by neighbour in the order in which the neighbours were first
\* linked to entity, the parallel edges of a neighbour in insertion order
neighbor_tuples(g, entity, direction) ==
    LET near(i) == IF direction = "out" THEN g.edge[i].v ELSE g.edge[i].u
        links(i) == IF direction = "out" THEN g.edge[i].u = entity ELSE g.edge[i].v = entity
        firsts == SelectSeq([i \in 1..Len(g.edge) |-> i],
                            LAMBDA i : links(i) /\ ~\E j \in 1..(i - 1) : links(j) /\ near(j) = near(i))
        of(n) == SelectSeq([i \in 1..Len(g.edge) |-> i], LAMBDA i : links(i) /\ near(i) = n)
        tuples(n) == [x \in 1..Len(of(n)) |-> <<g.edge[of(n)[x]].relation, n, direction>>]
        RECURSIVE all(_)
        all(x) == IF x > Len(firsts) THEN <<>> ELSE tuples(near(firsts[x])) \o all(x + 1)
    IN all(1)

\* a listing with one tuple per neighbour
get_neighbors_one_per_neighbor(k, entity, direction) ==
    LET g == k.graph
        one(d) == LET ts == neighbor_tuples(g, entity, d)
                      keep == SelectSeq([i \in 1..Len(ts) |-> i],
                                        LAMBDA i : ~\E j \in 1..(i - 1) : ts[j][2] = ts[i][2])
                  IN [x \in 1..Len(keep) |-> ts[keep[x]]]
    IN IF entity \notin DOMAIN g.node THEN <<>>
       ELSE (IF direction \in {"out", "both"} THEN one("out") ELSE <<>>)
            \o (IF direction \in {"in", "both"} THEN one("in") ELSE <<>>)

\* get_neighbors
get_neighbors(k, entity, direction) ==
    IF entity \notin DOMAIN k.graph.node THEN <<>>
    ELSE (IF direction \in {"out", "both"} THEN neighbor_tuples(k.graph, entity, "out") ELSE <<>>)
         \o (IF direction \in {"in", "both"} THEN neighbor_tuples(k.graph, entity, "in") ELSE <<>>)

\* a scan that looks at the subject filter only
RECURSIVE query_triples_subject_only(_, _, _, _)
query_triples_subject_only(triples, subject, predicate, obj) ==
    IF triples = <<>> THEN <<>>
    ELSE IF subject # NoneV /\ Head(triples).s # subject
    THEN query_triples_subject_only(Tail(triples), subject, predicate, obj)
    ELSE <<TupleEntry(Head(triples).s, Head(triples).p, Head(triples).o)>>
         \o query_triples_subject_only(Tail(triples), subject, predicate, obj)

\* query_triples: None is the wildcard
RECURSIVE query_triples(_, _, _, _)
query_triples(triples, subject, predicate, obj) ==
    IF triples = <<>> THEN <<>>
    ELSE LET e == Head(triples)
             rest == query_triples(Tail(triples), subject, predicate, obj)
         IN IF subject # NoneV /\ e.s # subject THEN rest
            ELSE IF predicate # NoneV /\ e.p # predicate THEN rest
            ELSE IF obj # NoneV /\ e.o # obj THEN rest
            ELSE <<TupleEntry(e.s, e.p, e.o)>> \o rest

\* a search that follows outgoing edges only
RECURSIVE bfs_successors_only(_, _, _, _, _)
bfs_successors_only(g, queue, visited, nodes_to_include, max_depth) ==
    IF queue = <<>> THEN nodes_to_include
    ELSE IF Head(queue)[2] >= max_depth
    THEN bfs_successors_only(g, Tail(queue), visited, nodes_to_include, max_depth)
    ELSE LET near == successors(g, Head(queue)[1])
             fresh == SelectSeq(nodes(g), LAMBDA x : x \in near \ visited)
         IN bfs_successors_only(g,
                Tail(queue) \o [i \in 1..Len(fresh) |-> <<fresh[i], Head(queue)[2] + 1>>],
                visited \cup near, nodes_to_include \cup near, max_depth)

\* get_subgraph, the breadth-first search from one seed: queue holds
\* (node, depth) pairs; the neighbours of a node are queued together, so
\* their order in the queue does not change any depth
RECURSIVE bfs(_, _, _, _, _)
bfs(g, queue, visited, nodes_to_include, max_depth) ==
    IF queue = <<>> THEN nodes_to_include
    ELSE IF Head(queue)[2] >= max_depth
    THEN bfs(g, Tail(queue), visited, nodes_to_include, max_depth)
    ELSE LET near == successors(g, Head(queue)[1]) \cup predecessors(g, Head(queue)[1])
             fresh == SelectSeq(nodes(g), LAMBDA x : x \in near \ visited)
         IN bfs(g,
                Tail(queue) \o [i \in 1..Len(fresh) |-> <<fresh[i], Head(queue)[2] + 1>>],
                visited \cup near, nodes_to_include \cup near, max_depth)

\* get_subgraph, `for entity in entities`
RECURSIVE seeds_loop(_, _, _, _, _)
seeds_loop(g, entities, i, nodes_to_include, max_depth) ==
    IF i > Len(entities) THEN nodes_to_include
    ELSE IF entities[i] \notin DOMAIN g.node
    THEN seeds_loop(g, entities, i + 1, nodes_to_include, max_depth)
    ELSE seeds_loop(g, entities, i + 1,
                    bfs(g, << <<entities[i], 0>> >>, {entities[i]}, nodes_to_include, max_depth),
                    max_depth)

\* get_subgraph, `for s, p, o in self.triples`
RECURSIVE copy_loop(_, _, _, _)
copy_loop(k, i, nodes_to_include, subgraph) ==
    IF i > Len(k.triples) THEN subgraph
    ELSE IF k.triples[i].s \in nodes_to_include /\ k.triples[i].o \in nodes_to_include
    THEN copy_loop(k, i + 1, nodes_to_include,
                   add_triple(subgraph, k.triples[i].s, k.triples[i].p, k.triples[i].o,
                              DictGet(k.entity_types, k.triples[i].s),
                              DictGet(k.entity_types, k.triples[i].o)))
    ELSE copy_loop(k, i + 1, nodes_to_include, subgraph)

\* a new store built on the type map of the source
get_subgraph_sharing_types(k, entities, max_depth) ==
    [store |-> copy_loop(k, 1,
                         seeds_loop(k.graph, entities, 1, {entities[i] : i \in 1..Len(entities)}, max_depth),
                         [KnowledgeGraph EXCEPT !.entity_types = k.entity_types]),
     shared |-> {"entity_types"}]

\* get_subgraph: the store it returns, and the containers of that store
\* that are the source's own objects (KnowledgeGraph() makes three new ones)
get_subgraph(k, entities, max_depth) ==
    [store |-> copy_loop(k, 1,
                         seeds_loop(k.graph, entities, 1, {entities[i] : i \in 1..Len(entities)}, max_depth),
                         KnowledgeGraph),
     shared |-> {}]

\* a store after a call on another store: the containers in shared are
\* the other store's objects and show its content
aliased(k, shared, other) ==
    [f \in DOMAIN k |-> IF f \in shared THEN other[f] ELSE k[f]]

(***************************************************************************)
(* The store as a state machine.  Besides the store and the file the state *)
(* records: saved, the log and type map of the store at the last           *)
(* save_graph; addCalls, the add_triple invocations on the store since its *)
(* log was created (by __init__ or by load_graph's assignment); last, the  *)
(* last call with its arguments, the store before it and its outcome.      *)
(***************************************************************************)
StoreInit ==
    /\ kg = KnowledgeGraph
    /\ file = NoFile
    /\ saved = [triples |-> <<>>, entity_types |-> <<>>]
    /\ addCalls = 0
    /\ last = [op |-> "__init__", err |-> "ok"]

\* no span list under resolution
ResolveIdle ==
    /\ inSpans = <<>>
    /\ retResolved = <<>>
    /\ resolveDone = FALSE

\* no text under extraction
TextIdle ==
    /\ inText = ""
    /\ nerStep = 0
    /\ retPositions = <<>>
    /\ retEntities = <<>>
    /\ retRelations = <<>>
    /\ retSimple = <<>>

\* no argument under test
NoCall == [fn |-> "none"]
CallIdle ==
    /\ callArg = NoneV
    /\ callRet = NoCall

\* Pipeline.__init__: the counters of a new pipeline
NewStats ==
    [total_posts_processed |-> 0,
     total_entities_extracted |-> 0,
     total_triples_extracted |-> 0,
     entity_type_counts |-> <<>>,
     relation_type_counts |-> <<>>,
     posts_with_entities |-> 0,
     posts_with_relations |-> 0]

PipelineIdle == stats = NewStats

\* get_subgraph not called yet
NoSubgraph == [exists |-> FALSE]
SubIdle == subgraph_kg = NoSubgraph

Init == StoreInit /\ ResolveIdle /\ TextIdle /\ CallIdle /\ SubIdle /\ PipelineIdle

AddTriple ==
    \E s \in EntityNames, p \in Predicates, o \in EntityNames,
       st \in TypeArgs, ot \in ObjectTypeArgs :
        /\ Len(kg.triples) < MaxLog
        /\ kg' = add_triple(kg, s, p, o, st, ot)
        /\ addCalls' = addCalls + 1
        /\ last' = [op |-> "add_triple", err |-> "ok", s |-> s, p |-> p, o |-> o, st |-> st, ot |-> ot,
                    before |-> kg]
        /\ UNCHANGED <<file, saved, resolveVars, textVars, callVars, subVars, pipelineVars>>

Triples3 == EntityNames \X Predicates \X EntityNames
Batches == UNION {[1..n -> Triples3] : n \in 0..MaxBatch}

AddTriplesBatch ==
    \E batch \in Batches :
        /\ Len(kg.triples) + Len(batch) <= MaxLog
        /\ kg' = add_triples_batch(kg, batch)
        /\ addCalls' = addCalls + Len(batch)
        /\ last' = [op |-> "add_triples_batch", err |-> "ok", n |-> Len(batch)]
        /\ UNCHANGED <<file, saved, resolveVars, textVars, callVars, subVars, pipelineVars>>

GetEntityTypesDistribution ==
    /\ last' = [op |-> "get_entity_types_distribution", err |-> "ok",
                ret |-> get_entity_types_distribution(kg)]
    /\ UNCHANGED <<kg, file, saved, addCalls, resolveVars, textVars, callVars, subVars, pipelineVars>>

SaveGraph ==
    /\ file' = save_graph(kg)
    /\ saved' = [triples |-> kg.triples, entity_types |-> kg.entity_types]
    /\ last' = [op |-> "save_graph", err |-> "ok"]
    /\ UNCHANGED <<kg, addCalls, resolveVars, textVars, callVars, subVars, pipelineVars>>

\* kg.load_graph(path) on the current store
LoadGraph ==
    /\ IF file.exists
       THEN LET r == load_graph(kg, file)
            IN /\ kg' = r.kg
               /\ addCalls' = r.calls
               /\ last' = [op |-> "load_graph", err |-> r.err, intoFresh |-> FALSE, calls |-> r.calls]
       ELSE /\ last' = [op |-> "load_graph", err |-> "FileNotFoundError", intoFresh |-> FALSE, calls |-> 0]
            /\ UNCHANGED <<kg, addCalls, resolveVars, textVars, callVars, subVars, pipelineVars>>
    /\ UNCHANGED <<file, saved, resolveVars, textVars, callVars, subVars, pipelineVars>>

\* kg = KnowledgeGraph(); kg.load_graph(path): the load into a fresh store
LoadGraphFresh ==
    /\ LET r == IF file.exists THEN load_graph(KnowledgeGraph, file)
                ELSE [kg |-> KnowledgeGraph, calls |-> 0, err |-> "FileNotFoundError"]
       IN /\ kg' = r.kg
          /\ addCalls' = r.calls
          /\ last' = [op |-> "load_graph", err |-> r.err, intoFresh |-> TRUE, calls |-> r.calls]
    /\ UNCHANGED <<file, saved, resolveVars, textVars, callVars, subVars, pipelineVars>>

Next ==
    \/ AddTriple
    \/ AddTriplesBatch
    \/ GetEntityTypesDistribution
    \/ SaveGraph
    \/ LoadGraph
    \/ LoadGraphFresh

Spec == Init /\ [][Next]_vars

(***************************************************************************)
(* Queries and subgraphs: a source store is filled, queried, and a         *)
(* subgraph is taken from it; afterwards triples are added to either store *)
(***************************************************************************)
SourceTriples ==
    { <<"A", "R", "B", NoneV>>, <<"B", "R", "C", NoneV>>, <<"C", "S", "A", "PERSON">>,
      <<"A", "S", "A", NoneV>>, <<"B", "R", "A", "LOCATION">>, <<"A", "R", "B", "PERSON">> }

Metrics == {"degree", "in_degree", "out_degree", "pagerank", "betweenness", "closeness"}
SeedLists == {<<>>, <<"A">>, <<"B">>, <<"A", "C">>}

AddTripleToSource ==
    \E t \in SourceTriples :
        /\ Len(kg.triples) < MaxLog
        /\ subgraph_kg.exists => subgraph_kg.adds < MaxAddsAfter
        /\ kg' = add_triple(kg, t[1], t[2], t[3], t[4], NoneV)
        /\ addCalls' = addCalls + 1
        /\ subgraph_kg' = IF subgraph_kg.exists
                          THEN [subgraph_kg EXCEPT !.store = aliased(@, subgraph_kg.shared, kg'),
                                                   !.adds = @ + 1]
                          ELSE subgraph_kg
        /\ last' = [op |-> "add_triple", err |-> "ok", s |-> t[1], p |-> t[2], o |-> t[3],
                    st |-> t[4], ot |-> NoneV, before |-> kg, other |-> subgraph_kg]
        /\ UNCHANGED <<file, saved, resolveVars, textVars, callVars, pipelineVars>>

AddTripleToSubgraph ==
    \E t \in SourceTriples :
        /\ subgraph_kg.exists
        /\ subgraph_kg.adds < MaxAddsAfter
        /\ Len(subgraph_kg.store.triples) < MaxLog
        /\ LET added == add_triple(subgraph_kg.store, t[1], t[2], t[3], t[4], NoneV)
           IN /\ subgraph_kg' = [subgraph_kg EXCEPT !.store = added, !.adds = @ + 1]
              /\ kg' = aliased(kg, subgraph_kg.shared, added)
        /\ last' = [op |-> "subgraph_kg.add_triple", err |-> "ok", before |-> subgraph_kg.store,
                    other |-> kg]
        /\ UNCHANGED <<file, saved, addCalls, resolveVars, textVars, callVars, pipelineVars>>

QueryTriples ==
    \E subject \in {NoneV, "A", "B"}, predicate \in {NoneV, "R"}, obj \in {NoneV, "A"} :
        /\ ~subgraph_kg.exists
        /\ last' = [op |-> "query_triples", err |-> "ok", subject |-> subject,
                    predicate |-> predicate, obj |-> obj,
                    ret |-> query_triples(kg.triples, subject, predicate, obj)]
        /\ UNCHANGED <<kg, file, saved, addCalls, resolveVars, textVars, callVars, subVars, pipelineVars>>

GetTopEntities ==
    \E n \in {1, 2}, metric \in Metrics :
        /\ ~subgraph_kg.exists
        /\ last' = [op |-> "get_top_entities", n |-> n, metric |-> metric]
                       @@ get_top_entities(kg, n, metric)
        /\ UNCHANGED <<kg, file, saved, addCalls, resolveVars, textVars, callVars, subVars, pipelineVars>>

\* a get_statistics that drains the triple log while counting it
GetStatistics_draining_log ==
    /\ ~subgraph_kg.exists
    /\ last' = [op |-> "get_statistics"] @@ get_statistics(kg)
    /\ kg' = [kg EXCEPT !.triples = <<>>]
    /\ UNCHANGED <<file, saved, addCalls, resolveVars, textVars, callVars, subVars, pipelineVars>>

GetStatistics ==
    /\ ~subgraph_kg.exists
    /\ last' = [op |-> "get_statistics"] @@ get_statistics(kg)
    /\ UNCHANGED <<kg, file, saved, addCalls, resolveVars, textVars, callVars, subVars, pipelineVars>>

GetNeighbors ==
    \E entity \in {"A", "C"}, direction \in {"out", "in", "both"} :
        /\ ~subgraph_kg.exists
        /\ last' = [op |-> "get_neighbors", err |-> "ok", entity |-> entity, direction |-> direction,
                    ret |-> get_neighbors(kg, entity, direction)]
        /\ UNCHANGED <<kg, file, saved, addCalls, resolveVars, textVars, callVars, subVars, pipelineVars>>

GetSubgraph ==
    \E entities \in SeedLists, max_depth \in 0..MaxDepth :
        /\ subgraph_kg.exists => subgraph_kg.adds = 0
        /\ subgraph_kg' = [exists |-> TRUE, entities |-> entities, max_depth |-> max_depth,
                           adds |-> 0] @@ get_subgraph(kg, entities, max_depth)
        /\ last' = [op |-> "get_subgraph", err |-> "ok"]
        /\ UNCHANGED <<kg, file, saved, addCalls, resolveVars, textVars, callVars, pipelineVars>>

QueryNext ==
    \/ AddTripleToSource
    \/ AddTripleToSubgraph
    \/ QueryTriples
    \/ GetTopEntities
    \/ GetStatistics
    \/ GetNeighbors
    \/ GetSubgraph

SpecQuery == Init /\ [][QueryNext]_vars

(***************************************************************************)
(* _resolve_overlaps on span lists: the list is built span by span, then   *)
(* resolved                                                                *)
(***************************************************************************)
Offsets == {0, 5, 10, 20}
SpanTypes == {"LOCATION", "POLICY"}
Spans == {<<ty, "", a, b>> : ty \in SpanTypes, a \in Offsets, b \in Offsets}
            \cap {sp \in SpanTypes \X {""} \X Offsets \X Offsets : sp[3] < sp[4]}

ResolveInit == StoreInit /\ ResolveIdle /\ TextIdle /\ CallIdle /\ SubIdle /\ PipelineIdle

AddSpan ==
    \E sp \in Spans :
        /\ ~resolveDone
        /\ Len(inSpans) < MaxSpans
        /\ inSpans' = Append(inSpans, sp)
        /\ UNCHANGED <<retResolved, resolveDone, storeVars, textVars, callVars, subVars, pipelineVars>>

ResolveOverlaps ==
    /\ ~resolveDone
    /\ retResolved' = resolve_overlaps(inSpans)
    /\ resolveDone' = TRUE
    /\ UNCHANGED <<inSpans, storeVars, textVars, callVars, subVars, pipelineVars>>

ResolveNext == AddSpan \/ ResolveOverlaps

SpecResolve == ResolveInit /\ [][ResolveNext]_vars

(***************************************************************************)
(* The extractors on texts: a text is a list of fragments joined by single *)
(* spaces; the four extraction functions are called in the order in which  *)
(* Pipeline.process_text calls them                                        *)
(***************************************************************************)
Fragments == {"bbc announces", "NAFTA", "nafta", "steel", "tariff policy"}

RECURSIVE Join(_)
Join(fs) == IF fs = <<>> THEN ""
            ELSE IF Len(fs) = 1 THEN fs[1]
            ELSE fs[1] \o " " \o Join(Tail(fs))

Texts == {Join(fs) : fs \in UNION {[1..n -> Fragments] : n \in 0..MaxFragments}}

TextInit ==
    /\ StoreInit /\ ResolveIdle /\ CallIdle /\ SubIdle /\ PipelineIdle
    /\ inText \in Texts
    /\ nerStep = 0
    /\ retPositions = <<>>
    /\ retEntities = <<>>
    /\ retRelations = <<>>
    /\ retSimple = <<>>

ExtractEntitiesWithPositions ==
    /\ nerStep = 0
    /\ retPositions' = extract_entities_with_positions(inText)
    /\ nerStep' = 1
    /\ UNCHANGED <<inText, retEntities, retRelations, retSimple, storeVars, resolveVars, callVars, subVars, pipelineVars>>

ExtractEntities ==
    /\ nerStep = 1
    /\ retEntities' = extract_entities(inText)
    /\ nerStep' = 2
    /\ UNCHANGED <<inText, retPositions, retRelations, retSimple, storeVars, resolveVars, callVars, subVars, pipelineVars>>

ExtractRelations ==
    /\ nerStep = 2
    /\ retRelations' = extract_relations(inText)
    /\ nerStep' = 3
    /\ UNCHANGED <<inText, retPositions, retEntities, retSimple, storeVars, resolveVars, callVars, subVars, pipelineVars>>

ExtractSimpleTriples ==
    /\ nerStep = 3
    /\ retSimple' = extract_simple_triples(inText)
    /\ nerStep' = 4
    /\ UNCHANGED <<inText, retPositions, retEntities, retRelations, storeVars, resolveVars, callVars, subVars, pipelineVars>>

TextNext ==
    \/ ExtractEntitiesWithPositions
    \/ ExtractEntities
    \/ ExtractRelations
    \/ ExtractSimpleTriples

SpecText == TextInit /\ [][TextNext]_vars

(***************************************************************************)
(* Single calls on one argument.  The argument is a Python value (its type *)
(* and its content); callRet records the one call made on it.              *)
(***************************************************************************)
\* what extract_entities returns: one (type, text) pair per entity
EntityPool ==
    { <<"PERSON", "Trump">>, <<"LOCATION", "China">>, <<"ORGANIZATION", "BBC">>,
      <<"POLICY", "nafta">>, <<"POLICY", "NAFTA">>, <<"ECONOMIC_SECTOR", "steel">>,
      <<"MONEY", "$5">>, <<"PERCENTAGE", "5%">>, <<"DATE", "1/2/2024">>,
      <<"TARIFF_RATE", "5% tariff">>, <<"PRODUCT", "cars">> }

EntityLists == UNION {[1..n -> EntityPool] : n \in 0..MaxEntities}

PyLists == [type : {"list"}, v : EntityLists]

\* texts: pieces written one after the other
Pieces == {"us", "US", "tr", "t", " ", "_"}

RECURSIVE Concat(_)
Concat(ps) == IF ps = <<>> THEN "" ELSE Head(ps) \o Concat(Tail(ps))

PyStrs == [type : {"str"}, v : {Concat(ps) : ps \in UNION {[1..n -> Pieces] : n \in 0..MaxPieces}}]

\* (type, text) of a match before normalization: the text is a dictionary
\* term of the type, or a match of a pattern of the type, in some casing
Mentions ==
    ({"PERSON"} \X {"trump", "TRUMP", "Trump", "tRUMP", "xi jinping", "XI JINPING", "Xi jinping"})
    \cup ({"LOCATION"} \X {"usa", "USA", "Usa", "uSa", "new delhi", "NEW DELHI", "New delhi",
                            "us", "US", "Us", "eu", "Eu", "EU"})
    \cup ({"ORGANIZATION"} \X {"bbc", "BBC", "Bbc", "bBC", "white house", "WHITE HOUSE", "White House",
                                "nato", "Nato", "NATO", "gm", "GM"})
    \cup ({"MONEY"} \X {"$5 Billion", "$5 billion", "5 USD", "5 usd"})
    \cup ({"PERCENTAGE"} \X {"5 %", "5 Percent", "5 PERCENT"})
    \cup ({"DATE"} \X {"January 5, 2024", "JAN 5 2024", "jan. 5, 2024", "1/2/2024"})
    \cup ({"TARIFF_RATE"} \X {"5% Tariff", "5% tariff", "TARIFF of 5%"})
    \cup ({"POLICY"} \X {"nafta", "Nafta", "Trade War"})
    \cup ({"ECONOMIC_SECTOR", "PRODUCT"} \X {"steel", "Steel"})

PyTuples == [type : {"tuple"}, v : Mentions]

PyInts == [type : {"int"}, v : {0, 42}]
PyNone == [type |-> "NoneType"]

\* bool(x)
bool(x) ==
    CASE x.type = "NoneType" -> FALSE
      [] x.type = "int" -> x.v # 0
      [] x.type = "str" -> x.v # ""
      [] OTHER -> x.v # <<>>

\* a guard that lets every truthy value through
rejects_falsy_only(text) == ~bool(text)

\* `not text or not isinstance(text, str)`
rejects(text) == ~bool(text) \/ text.type # "str"

\* the entry of the four extraction functions: the guard, then the body,
\* which starts by calling text.lower(); ret is what the body returns for
\* a string
guarded(text, ret) ==
    IF rejects(text) THEN [err |-> "ok", ret |-> <<>>]
    ELSE IF text.type # "str" THEN [err |-> "AttributeError"]
    ELSE [err |-> "ok", ret |-> ret]

CallsInit ==
    /\ StoreInit /\ ResolveIdle /\ TextIdle /\ SubIdle /\ PipelineIdle
    /\ \/ callArg \in PyLists
       \/ callArg \in PyStrs
       \/ callArg \in PyInts
       \/ callArg \in PyTuples
       \/ callArg = PyNone
    /\ callRet = NoCall

\* one call fn(callArg) of an extraction function whose body returns ret
ExtractCall(fn, ret) ==
    /\ callRet = NoCall
    /\ callRet' = [fn |-> fn] @@ guarded(callArg, ret)
    /\ UNCHANGED <<callArg, storeVars, resolveVars, textVars, subVars, pipelineVars>>

CallExtractEntities ==
    ExtractCall("extract_entities", extract_entities(callArg.v))

CallExtractEntitiesWithPositions ==
    ExtractCall("extract_entities_with_positions", extract_entities_with_positions(callArg.v))

CallExtractRelations ==
    ExtractCall("extract_relations", extract_relations(callArg.v))

CallExtractSimpleTriples ==
    ExtractCall("extract_simple_triples", extract_simple_triples(callArg.v))

\* extract_simple_triples from line 306 on, given the list of line 304
PairTriples ==
    /\ callRet = NoCall
    /\ callArg.type = "list"
    /\ callRet' = [fn |-> "pair_triples", err |-> "ok", ret |-> pair_triples(callArg.v)]
    /\ UNCHANGED <<callArg, storeVars, resolveVars, textVars, subVars, pipelineVars>>

MatchDictionary ==
    /\ callRet = NoCall
    /\ callArg.type = "str"
    /\ callRet' = [fn |-> "_match_dictionary", err |-> "ok", ret |-> match_dictionary(callArg.v)]
    /\ UNCHANGED <<callArg, storeVars, resolveVars, textVars, subVars, pipelineVars>>

\* _capitalize_entity(entity_text, entity_type) as extract_entities calls it
CapitalizeEntity ==
    /\ callRet = NoCall
    /\ callArg.type = "tuple"
    /\ callRet' = [fn |-> "_capitalize_entity", err |-> "ok",
                   ret |-> capitalize_entity(callArg.v[2], callArg.v[1])]
    /\ UNCHANGED <<callArg, storeVars, resolveVars, textVars, subVars, pipelineVars>>

CallsNext ==
    \/ PairTriples
    \/ CapitalizeEntity
    \/ MatchDictionary
    \/ CallExtractEntities
    \/ CallExtractEntitiesWithPositions
    \/ CallExtractRelations
    \/ CallExtractSimpleTriples

SpecCalls == CallsInit /\ [][CallsNext]_vars

(***************************************************************************)
(* Pipeline: process_text on one text, process_posts on a list of posts    *)
(* and a limit.  A post is a dict; its 'text_content' is a Python value.   *)
(***************************************************************************)
MaxPosts == 2

PyStr(v) == [type |-> "str", v |-> v]
PyInt(v) == [type |-> "int", v |-> v]

\* the values a post holds under 'text_content'
TextContents ==
    {PyStr(""), PyInt(42), PyStr("announces"), PyStr("steel"), PyStr("bbc announces NAFTA"),
     PyStr("nafta steel")}

Posts == {<<>>} \cup {("text_content" :> text) : text \in TextContents}
PostLists == UNION {[1..n -> Posts] : n \in 0..MaxPosts}
Limits == {PyNone, PyInt(0), PyInt(1), PyInt(2)}

\* a process_text that adds the co-occurrence triples to the rule triples
process_text_adding_fallback(text) ==
    IF rejects(text) THEN [entities |-> <<>>, triples |-> <<>>]
    ELSE [entities |-> extract_entities(text.v),
          entities_with_positions |-> extract_entities_with_positions(text.v),
          triples |-> extract_relations(text.v) \o extract_simple_triples(text.v)]

\* process_text
process_text(text) ==
    IF rejects(text) THEN [entities |-> <<>>, triples |-> <<>>]
    ELSE LET entities_with_pos == extract_entities_with_positions(text.v)
             entities == extract_entities(text.v)
             triples == extract_relations(text.v)
         IN [entities |-> entities,
             entities_with_positions |-> entities_with_pos,
             triples |-> IF triples = <<>> /\ Len(entities) >= 2
                         THEN extract_simple_triples(text.v)
                         ELSE triples]

\* process_text on the values a post can hold, computed once
ProcessedText == [text \in TextContents |-> process_text(text)]

\* Counter: c[key] += 1
Increment(c, key) == DictSet(c, key, (IF key \in DOMAIN c THEN c[key] ELSE 0) + 1)

\* `for entity_type, entity_text in entities: entity_type_counts[entity_type] += 1`
RECURSIVE count_entity_types(_, _, _)
count_entity_types(entities, i, c) ==
    IF i > Len(entities) THEN c
    ELSE count_entity_types(entities, i + 1, Increment(c, entities[i][1]))

\* `for etype, etext in entities: if etext == name: name_type = etype`: the
\* type of the last entity with that text, None without one
RECURSIVE find_entity_type(_, _, _, _)
find_entity_type(entities, name, i, found) ==
    IF i > Len(entities) THEN found
    ELSE find_entity_type(entities, name, i + 1,
                          IF entities[i][2] = name THEN entities[i][1] ELSE found)

\* a loop that leaves out a triple the store already holds
RECURSIVE add_triples_of_post_once(_, _, _, _)
add_triples_of_post_once(triples, entities, i, acc) ==
    IF i > Len(triples) THEN acc
    ELSE add_triples_of_post_once(triples, entities, i + 1,
             IF \E x \in 1..Len(acc.kg.triples) :
                    <<acc.kg.triples[x].s, acc.kg.triples[x].p, acc.kg.triples[x].o>> = triples[i]
             THEN acc
             ELSE [kg |-> add_triple(acc.kg, triples[i][1], triples[i][2], triples[i][3],
                                     find_entity_type(entities, triples[i][1], 1, NoneV),
                                     find_entity_type(entities, triples[i][3], 1, NoneV)),
                   relation_type_counts |-> Increment(acc.relation_type_counts, triples[i][2])])

\* `for subject, predicate, obj in triples`; acc is [kg, relation_type_counts]
RECURSIVE add_triples_of_post(_, _, _, _)
add_triples_of_post(triples, entities, i, acc) ==
    IF i > Len(triples) THEN acc
    ELSE add_triples_of_post(triples, entities, i + 1,
             [kg |-> add_triple(acc.kg, triples[i][1], triples[i][2], triples[i][3],
                                find_entity_type(entities, triples[i][1], 1, NoneV),
                                find_entity_type(entities, triples[i][3], 1, NoneV)),
              relation_type_counts |-> Increment(acc.relation_type_counts, triples[i][2])])

\* the body of the loop of process_posts for a post with a truthy text;
\* p is [stats, kg]
process_post(result, p) ==
    LET entities == result.entities
        triples == result.triples
        added == add_triples_of_post(triples, entities, 1,
                     [kg |-> p.kg, relation_type_counts |-> p.stats.relation_type_counts])
    IN [stats |->
            [total_posts_processed |-> p.stats.total_posts_processed + 1,
             posts_with_entities |-> p.stats.posts_with_entities + (IF entities # <<>> THEN 1 ELSE 0),
             total_entities_extracted |-> p.stats.total_entities_extracted + Len(entities),
             entity_type_counts |-> count_entity_types(entities, 1, p.stats.entity_type_counts),
             posts_with_relations |-> p.stats.posts_with_relations + (IF triples # <<>> THEN 1 ELSE 0),
             total_triples_extracted |-> p.stats.total_triples_extracted + Len(triples),
             relation_type_counts |-> added.relation_type_counts],
        kg |-> added.kg]

\* post.get('text_content', '')
text_content(post) == IF "text_content" \in DOMAIN post THEN post["text_content"] ELSE PyStr("")

\* `for i, post in enumerate(posts)`
RECURSIVE posts_loop(_, _, _)
posts_loop(posts, i, p) ==
    IF i > Len(posts) THEN p
    ELSE IF ~bool(text_content(posts[i])) THEN posts_loop(posts, i + 1, p)
    ELSE posts_loop(posts, i + 1, process_post(ProcessedText[text_content(posts[i])], p))

\* posts[:limit]
slice_to(posts, limit) ==
    IF limit >= 0 THEN SubSeq(posts, 1, IF limit < Len(posts) THEN limit ELSE Len(posts))
    ELSE SubSeq(posts, 1, IF Len(posts) + limit > 0 THEN Len(posts) + limit ELSE 0)

\* `if limit: posts = posts[:limit]`
limited(posts, limit) == IF bool(limit) THEN slice_to(posts, limit.v) ELSE posts

\* process_posts; processing is the number it prints before the loop
process_posts(p, posts, limit) ==
    [processing |-> Len(limited(posts, limit))] @@ posts_loop(limited(posts, limit), 1, p)

\* pipeline.process_text(text)
ProcessText ==
    \E text \in TextContents :
        /\ last' = [op |-> "process_text", err |-> "ok", text |-> text, ret |-> ProcessedText[text]]
        /\ UNCHANGED <<kg, file, saved, addCalls, resolveVars, textVars, callVars, subVars, pipelineVars>>

\* pipeline.process_posts(posts, limit) on a pipeline that has processed nothing
ProcessPosts ==
    \E posts \in PostLists, limit \in Limits :
        /\ stats = NewStats
        /\ kg = KnowledgeGraph
        /\ LET r == process_posts([stats |-> stats, kg |-> kg], posts, limit)
           IN /\ stats' = r.stats
              /\ kg' = r.kg
              /\ addCalls' = addCalls + Len(r.kg.triples)
              /\ last' = [op |-> "process_posts", err |-> "ok", posts |-> posts, limit |-> limit,
                          processing |-> r.processing]
        /\ UNCHANGED <<file, saved, resolveVars, textVars, callVars, subVars>>

PipelineNext ==
    \/ ProcessText
    \/ ProcessPosts

SpecPipeline == Init /\ [][PipelineNext]_vars

(***************************************************************************)
(* Claims about the graph store                                            *)
(***************************************************************************)
Content(log) == [i \in 1..Len(log) |-> <<log[i].s, log[i].p, log[i].o>>]

\* C3: every add_triple call adds exactly one edge and appends exactly one
\* log entry (the triple it was given), also when the same triple was added
\* before; the node count grows by the number of names not yet present.
C3_AddTripleAddsOneEdgeOneEntry ==
    last.op = "add_triple" =>
        /\ number_of_edges(kg.graph) = number_of_edges(last.before.graph) + 1
        /\ Len(kg.triples) = Len(last.before.triples) + 1
        /\ kg.triples = Append(last.before.triples, TupleEntry(last.s, last.p, last.o))
        /\ number_of_nodes(kg.graph) = number_of_nodes(last.before.graph)
               + Cardinality({last.s, last.o} \ DOMAIN last.before.graph.node)

\* add_triple("A","R","B") twice on an empty store: 2 nodes, 2 edges, 2 entries
C3_Witness ==
    /\ last.op = "add_triple"
    /\ Content(kg.triples) = << <<"A", "R", "B">>, <<"A", "R", "B">> >>
    /\ number_of_nodes(kg.graph) = 2
    /\ number_of_edges(kg.graph) = 2

\* C4: in every reachable state the triple log length equals the number of
\* add_triple invocations performed on the store and the number of edges.
C4_LogLenIsCallsIsEdges ==
    /\ Len(kg.triples) = addCalls
    /\ Len(kg.triples) = number_of_edges(kg.graph)

\* C5: save_graph followed by load_graph into a fresh store gives the fresh
\* store the saved store's triple log (same entries, same order, same
\* length) and the saved store's entity-type map.
C5_SaveLoadRoundTrip ==
    (last.op = "load_graph" /\ last.intoFresh /\ file.exists) =>
        /\ Content(kg.triples) = Content(saved.triples)
        /\ kg.entity_types = saved.entity_types

\* C6: a node whose entity_type attribute holds a real type keeps a real
\* type through an add_triple call that names it only with a null type.
C6_NoDowngradeToUnknown ==
    last.op = "add_triple" =>
        \A n \in {last.s, last.o} :
            ( /\ n \in DOMAIN last.before.graph.node
              /\ last.before.graph.node[n] # "UNKNOWN"
              /\ (last.s = n => ~Truthy(last.st))
              /\ (last.o = n => ~Truthy(last.ot)) )
            => kg.graph.node[n] # "UNKNOWN"

(***************************************************************************)
(* Claims about the recognizer                                             *)
(***************************************************************************)
\* the candidates of the text under extraction, before resolution
Candidates == match_dictionary(inText) \o match_patterns(inText)

\* C1: the spans returned by extract_entities_with_positions are pairwise
\* non-overlapping (of any two, the earlier one ends at or before the start
\* of the later one) and listed in strictly ascending start order; the
\* entities of extract_entities are these spans without their offsets.
C1_SpansDisjointAscending ==
    /\ nerStep >= 1 =>
           \A k, l \in 1..Len(retPositions) :
               k < l => /\ EStart(retPositions[k]) < EStart(retPositions[l])
                        /\ EEnd(retPositions[k]) <= EStart(retPositions[l])
    /\ nerStep >= 2 =>
           retEntities = [k \in 1..Len(retPositions) |->
                             <<EType(retPositions[k]), EText(retPositions[k])>>]

\* "steel tariff policy": "tariff policy" (6,19) overlaps "steel tariff"
\* (0,12) and is dropped; with a third fragment two spans are returned
C1_Witness ==
    /\ nerStep >= 2
    /\ Len(retPositions) >= 2
    /\ \E a, b \in 1..Len(Candidates) :
           /\ EStart(Candidates[a]) < EStart(Candidates[b])
           /\ EStart(Candidates[b]) < EEnd(Candidates[a])
           /\ InList(Candidates[a], retPositions)
           /\ ~InList(Candidates[b], retPositions)

\* the permutations of 1..n
Perms(n) == {p \in [1..n -> 1..n] : \A k, l \in 1..n : p[k] = p[l] => k = l}

SpanLen(e) == EEnd(e) - EStart(e)

\* p lists the indices of the spans by (start ascending, length
\* descending), spans with equal keys in their order in the list
OrdersSpans(p, spans) ==
    \A k, l \in 1..Len(spans) :
        k < l =>
            \/ EStart(spans[p[k]]) < EStart(spans[p[l]])
            \/ /\ EStart(spans[p[k]]) = EStart(spans[p[l]])
               /\ SpanLen(spans[p[k]]) > SpanLen(spans[p[l]])
            \/ /\ EStart(spans[p[k]]) = EStart(spans[p[l]])
               /\ SpanLen(spans[p[k]]) = SpanLen(spans[p[l]])
               /\ p[k] < p[l]

\* K is the set of ranks kept by the greedy rule: a rank is kept if and
\* only if no earlier rank is kept or its span starts at or after the end
\* of the span of the latest kept earlier rank
GreedyKept(K, p, spans) ==
    \A k \in 1..Len(spans) :
        k \in K <=>
            LET before == {m \in K : m < k}
            IN \/ before = {}
               \/ LET m == CHOOSE m \in before : \A m2 \in before : m2 <= m
                  IN EStart(spans[p[k]]) >= EEnd(spans[p[m]])

\* the spans of the ranks in K, in rank order
RECURSIVE KeptSpans(_, _, _, _)
KeptSpans(K, p, spans, k) ==
    IF k > Len(spans) THEN <<>>
    ELSE (IF k \in K THEN <<spans[p[k]]>> ELSE <<>>) \o KeptSpans(K, p, spans, k + 1)

Overlap(a, b) == EStart(a) < EEnd(b) /\ EStart(b) < EEnd(a)

SubjectStartsFirst(t, E) ==
    \E i, j \in 1..Len(E) :
        /\ EText(E[i]) = t[1]
        /\ EText(E[j]) = t[3]
        /\ EStart(E[i]) < EStart(E[j])

\* C7: in every triple returned by extract_relations and by
\* extract_simple_triples the subject is an entity occurrence that starts
\* earlier in the text than the object occurrence.
C7_SubjectBeforeObject ==
    /\ nerStep >= 3 =>
           \A k \in 1..Len(retRelations) : SubjectStartsFirst(retRelations[k], retPositions)
    /\ nerStep >= 4 =>
           \A k \in 1..Len(retSimple) : SubjectStartsFirst(retSimple[k], retPositions)

\* three entities, triples from both functions
C7_Witness ==
    /\ nerStep = 4
    /\ Len(retPositions) = 3
    /\ retRelations # <<>>
    /\ Len(retSimple) >= 2

\* the (i, j, r) for which entity i starts strictly before entity j and
\* rule r accepts their types and finds one of its connecting phrases
\* between the end of i and the start of j
Fired(text, E) ==
    {f \in (1..Len(E)) \X (1..Len(E)) \X (1..Len(relation_patterns)) :
        /\ EStart(E[f[1]]) < EStart(E[f[2]])
        /\ InList(EType(E[f[1]]), relation_patterns[f[3]].subject_types)
        /\ InList(EType(E[f[2]]), relation_patterns[f[3]].object_types)
        /\ \E w \in 1..Len(relation_patterns[f[3]].connecting_words) :
               search(relation_patterns[f[3]].connecting_words[w],
                      lower(Slice(text, EEnd(E[f[1]]), EStart(E[f[2]]))), TRUE)}

FiredTriple(f, E) == <<EText(E[f[1]]), relation_patterns[f[3]].predicate, EText(E[f[2]])>>

DedupKey(t) == <<lower(t[1]), t[2], lower(t[3])>>

Returned(triples) == {triples[k] : k \in 1..Len(triples)}

\* C8 as stated: extract_relations emits (text_i, predicate, text_j) if and
\* only if entities i and j and a rule exist with i starting strictly before
\* j, the rule accepting both types and one of its connecting phrases
\* matching the text between them; fewer than two entities give no triple.
C8_EmitsIffRuleFires ==
    nerStep >= 3 =>
        /\ Returned(retRelations) =
               {FiredTriple(f, retPositions) : f \in Fired(inText, retPositions)}
        /\ Len(retPositions) < 2 => retRelations = <<>>

\* C8 amended: every emitted triple comes from such i, j and rule, and
\* whenever such i, j and rule exist a triple with that predicate is emitted
\* whose subject and object are text_i and text_j up to letter case; fewer
\* than two entities give no triple.
C8_EmitsIffRuleFiresUpToCase ==
    nerStep >= 3 =>
        LET fired == Fired(inText, retPositions)
        IN /\ \A k \in 1..Len(retRelations) :
                  \E f \in fired : FiredTriple(f, retPositions) = retRelations[k]
           /\ \A f \in fired :
                  \E k \in 1..Len(retRelations) :
                      DedupKey(retRelations[k]) = DedupKey(FiredTriple(f, retPositions))
           /\ Len(retPositions) < 2 => retRelations = <<>>

\* one pair emits two predicates, and a rule fires for a non-adjacent pair
\* whose triple differs from an emitted one by letter case only
C8_Witness ==
    /\ nerStep >= 3
    /\ \E k, l \in 1..Len(retRelations) :
           /\ retRelations[k][1] = retRelations[l][1]
           /\ retRelations[k][3] = retRelations[l][3]
           /\ retRelations[k][2] # retRelations[l][2]
    /\ \E f \in Fired(inText, retPositions) :
           /\ f[2] > f[1] + 1
           /\ FiredTriple(f, retPositions) \notin Returned(retRelations)

\* f comes before g in iteration order, or is g
LexLE(f, g) ==
    \/ f[1] < g[1]
    \/ f[1] = g[1] /\ f[2] < g[2]
    \/ f[1] = g[1] /\ f[2] = g[2] /\ f[3] <= g[3]

NoTwoWithSameKey(triples) ==
    \A k, l \in 1..Len(triples) : DedupKey(triples[k]) = DedupKey(triples[l]) => k = l

KeptIsFirstProduced(triples, text, E) ==
    LET fired == Fired(text, E)
    IN \A k \in 1..Len(triples) :
           \E f \in fired :
               /\ FiredTriple(f, E) = triples[k]
               /\ \A g \in fired :
                      DedupKey(FiredTriple(g, E)) = DedupKey(triples[k]) => LexLE(f, g)

\* C9 as stated: within one extract_relations call a (subject text,
\* predicate) pair is emitted only once, no two returned triples have the
\* same dedup key, and the kept triple is the first one produced in
\* iteration order.
C9_SubjectPredicateOnce ==
    nerStep >= 3 =>
        /\ \A k, l \in 1..Len(retRelations) :
               (retRelations[k][1] = retRelations[l][1] /\ retRelations[k][2] = retRelations[l][2])
                   => k = l
        /\ NoTwoWithSameKey(retRelations)
        /\ KeptIsFirstProduced(retRelations, inText, retPositions)

\* C9 amended: within one extract_relations call no two returned triples
\* have the same dedup key (lower-cased subject, predicate, lower-cased
\* object), and the kept triple is the first one produced in iteration
\* order (subject index, then object index, then rule order).
C9_DedupKeyOnce ==
    nerStep >= 3 =>
        /\ NoTwoWithSameKey(retRelations)
        /\ KeptIsFirstProduced(retRelations, inText, retPositions)

\* two index pairs produce triples with one dedup key and different
\* texts; the first one is returned, the second one is not
C9_Witness ==
    /\ nerStep >= 3
    /\ \E f, g \in Fired(inText, retPositions) :
           /\ f # g /\ LexLE(f, g)
           /\ DedupKey(FiredTriple(f, retPositions)) = DedupKey(FiredTriple(g, retPositions))
           /\ FiredTriple(f, retPositions) \in Returned(retRelations)
           /\ FiredTriple(g, retPositions) \notin Returned(retRelations)

\* C10: the result of extract_simple_triples never holds two triples over
\* the same unordered pair of entity texts; in particular never both a
\* triple with subject a and object b and one with subject b and object a.
C10_UnorderedPairOnce ==
    nerStep >= 4 =>
        \A k, l \in 1..Len(retSimple) :
            {retSimple[k][1], retSimple[k][3]} = {retSimple[l][1], retSimple[l][3]} => k = l

(***************************************************************************)
(* Claims about the labels of extract_simple_triples                       *)
(***************************************************************************)
\* the predicates the type-pair table holds for the directed pair (t1, t2)
TableEntries(t1, t2) ==
    {row.predicate : row \in {r \in type_relations : r.type1 = t1 /\ r.type2 = t2}}

LabelOf(t1, t2, p) ==
    IF TableEntries(t1, t2) # {} THEN p \in TableEntries(t1, t2) ELSE p = "MENTIONED_WITH"

\* C11: extract_simple_triples labels a pair of entities of types (t1, t2)
\* with the entry of the directed 15-entry type-pair table for (t1, t2) when
\* there is one and with MENTIONED_WITH otherwise; the predicate is never
\* empty, so no pair is dropped for lack of a label.
C11_LabelFromDirectedTable ==
    callRet.fn = "pair_triples" =>
        LET E == callArg.v
            T == callRet.ret
        IN /\ Cardinality(type_relations) = 15
           /\ Cardinality({<<r.type1, r.type2>> : r \in type_relations}) = 15
           /\ \A k \in 1..Len(T) :
                 /\ T[k][2] # ""
                 /\ \E i, j \in 1..Len(E) :
                       /\ i < j
                       /\ T[k][1] = E[i][2] /\ T[k][3] = E[j][2]
                       /\ LabelOf(E[i][1], E[j][1], T[k][2])
           /\ \A i, j \in 1..Len(E) :
                 i < j => \E k \in 1..Len(T) :
                            pair_key(T[k][1], T[k][3]) = pair_key(E[i][2], E[j][2])
           /\ (Len(E) = 2 /\ pair_key(E[1][2], E[2][2]) # pair_key(E[2][2], E[1][2])) =>
                 (Len(T) = 1 /\ LabelOf(E[1][1], E[2][1], T[1][2]))

\* LOCATION then PERSON is MENTIONED_WITH although PERSON then LOCATION is
\* in the table
C11_Witness ==
    /\ callRet.fn = "pair_triples"
    /\ callArg.v = << <<"LOCATION", "China">>, <<"PERSON", "Trump">> >>
    /\ callRet.ret = << <<"China", "MENTIONED_WITH", "Trump">> >>
    /\ TableEntries("PERSON", "LOCATION") = {"ASSOCIATED_WITH"}

(***************************************************************************)
(* Claims about invalid input                                              *)
(***************************************************************************)
ExtractFns ==
    {"extract_entities", "extract_entities_with_positions",
     "extract_relations", "extract_simple_triples"}

\* C12: extract_entities, extract_entities_with_positions, extract_relations
\* and extract_simple_triples return an empty sequence and raise no error
\* when the input is empty, None or not a string.
C12_FailsSoftly ==
    (callRet.fn \in ExtractFns /\ (callArg.type # "str" \/ callArg.v = "")) =>
        (callRet.err = "ok" /\ callRet.ret = <<>>)

\* extract_relations(42) returned []
C12_Witness ==
    /\ callArg = [type |-> "int", v |-> 42]
    /\ callRet = [fn |-> "extract_relations", err |-> "ok", ret |-> <<>>]

(***************************************************************************)
(* Claims about the queries of the graph store                             *)
(***************************************************************************)
KnownMetrics == {"degree", "in_degree", "out_degree", "pagerank", "betweenness"}

\* C13: get_top_entities called with a metric name other than degree,
\* in_degree, out_degree, pagerank or betweenness fails with an
\* invalid-argument error in every store state, also in a store that holds
\* no triples.
C13_UnknownMetricFails ==
    (last.op = "get_top_entities" /\ last.metric \notin KnownMetrics) => last.err = "ValueError"

\* C14: an unrecognized centrality metric name is the only way an operation
\* of the graph store raises an error; in particular get_statistics returns
\* a statistics map in every reachable store state, also in a freshly
\* constructed store.
C14_OnlyUnknownMetricRaises ==
    /\ last.err # "ok" => (last.op = "get_top_entities" /\ last.metric \notin KnownMetrics)
    /\ last.op = "get_statistics" => (last.err = "ok" /\ last.ret.num_triples = Len(kg.triples))

(***************************************************************************)
(* Claims about the dictionary matcher                                     *)
(***************************************************************************)
\* the (dictionary, term, offset) triples at which the lower-cased text
\* reads the term between two characters that are absent or not alphanumeric
Occurrences(text_lower) ==
    {o \in UNION {UNION {{<<d, k, pos>> : pos \in 0..Len(text_lower)}
                         : k \in 1..Len(entity_dictionaries[d].terms)}
                  : d \in 1..Len(entity_dictionaries)} :
        LET term == entity_dictionaries[o[1]].terms[o[2]]
            end_pos == o[3] + Len(term)
        IN /\ end_pos <= Len(text_lower)
           /\ Slice(text_lower, o[3], end_pos) = term
           /\ (o[3] = 0 \/ ~isalnum(CharAt(text_lower, o[3] - 1)))
           /\ (end_pos = Len(text_lower) \/ ~isalnum(CharAt(text_lower, end_pos)))}

\* C15: the dictionary matcher reports an occurrence of a term at an offset
\* if and only if the lower-cased text equals the term there and the
\* characters right before and right after it are absent or not
\* alphanumeric; every such occurrence is reported, once, with the text of
\* the source at that place.
C15_ReportsEveryBoundedOccurrence ==
    callRet.fn = "_match_dictionary" =>
        LET text == callArg.v
            occ == Occurrences(lower(text))
            report(o) ==
                LET term == entity_dictionaries[o[1]].terms[o[2]]
                IN <<entity_dictionaries[o[1]].type, Slice(text, o[3], o[3] + Len(term)),
                     o[3], o[3] + Len(term)>>
        IN /\ {callRet.ret[i] : i \in 1..Len(callRet.ret)} = {report(o) : o \in occ}
           /\ Len(callRet.ret) = Cardinality(occ)

\* "US us": both occurrences of the term "us" are reported
C15_Witness ==
    /\ callRet.fn = "_match_dictionary"
    /\ callArg.v = "US us"
    /\ callRet.ret = << <<"LOCATION", "US", 0, 2>>, <<"LOCATION", "us", 3, 5>> >>

(***************************************************************************)
(* Claims about the normalization of entity texts                          *)
(***************************************************************************)
\* C16: whenever the recognizer returns an entity whose text is "usmca" or
\* "nafta" in any casing of the input, the returned text is upper-case.
C16_PolicyAcronymsUpperCased ==
    /\ nerStep >= 1 =>
          \A i \in 1..Len(retPositions) :
              lower(retPositions[i][2]) \in {"usmca", "nafta"} =>
                  retPositions[i][2] = upper(retPositions[i][2])
    /\ nerStep >= 2 =>
          \A i \in 1..Len(retEntities) :
              lower(retEntities[i][2]) \in {"usmca", "nafta"} =>
                  retEntities[i][2] = upper(retEntities[i][2])

\* text with the first letter of every run of letters upper-cased and the
\* other letters lower-cased
IsTitleCaseOf(out, text) ==
    /\ Len(out) = Len(text)
    /\ \A i \in 0..(Len(text) - 1) :
          CharAt(out, i) =
              IF CharAt(text, i) \notin Letters THEN CharAt(text, i)
              ELSE IF i > 0 /\ CharAt(text, i - 1) \in Letters THEN LowerChar(CharAt(text, i))
              ELSE UpperChar(CharAt(text, i))

AllowList == {"USA", "UK", "EU", "UN", "WTO", "IMF", "NATO", "OECD",
              "CNN", "BBC", "ABC", "NBC", "NYT", "WSJ", "MSNBC", "CNBC"}

\* C17: MONEY, PERCENTAGE, DATE and TARIFF_RATE texts are returned as they
\* are in the source; PERSON, LOCATION and ORGANIZATION texts are upper-cased
\* when they equal, ignoring case, an allow-listed acronym and title-cased
\* otherwise; so two mentions of one name in different casing get the same
\* text.
C17_NormalizationByType ==
    callRet.fn = "_capitalize_entity" =>
        LET ty == callArg.v[1]
            text == callArg.v[2]
        IN /\ ty \in {"MONEY", "PERCENTAGE", "DATE", "TARIFF_RATE"} => callRet.ret = text
           /\ ty \in {"PERSON", "LOCATION", "ORGANIZATION"} =>
                 /\ IF \E a \in AllowList : lower(a) = lower(text)
                    THEN callRet.ret \in AllowList /\ lower(callRet.ret) = lower(text)
                    ELSE IsTitleCaseOf(callRet.ret, text)
                 /\ \A m \in Mentions :
                       (m[1] = ty /\ lower(m[2]) = lower(text)) =>
                           capitalize_entity(m[2], m[1]) = callRet.ret

\* "bBC" becomes "BBC"
C17_Witness ==
    /\ callRet.fn = "_capitalize_entity"
    /\ callArg.v = <<"ORGANIZATION", "bBC">>
    /\ callRet.ret = "BBC"

(***************************************************************************)
(* Claims about get_subgraph and query_triples                             *)
(***************************************************************************)
\* the nodes of S and the nodes one edge away from them, in either direction
Around(g, S) ==
    S \cup {g.edge[i].v : i \in {j \in 1..Len(g.edge) : g.edge[j].u \in S}}
      \cup {g.edge[i].u : i \in {j \in 1..Len(g.edge) : g.edge[j].v \in S}}

RECURSIVE Within(_, _, _)
Within(g, S, hops) == IF hops = 0 THEN S ELSE Around(g, Within(g, S, hops - 1))

Touched(g, entities, max_depth) ==
    LET seeds == {entities[i] : i \in 1..Len(entities)}
    IN seeds \cup Within(g, seeds \cap DOMAIN g.node, max_depth)

\* C18: get_subgraph(entities, max_depth) returns a store whose triple log
\* is the sub-sequence, in log order, of the source triples whose subject
\* and object both lie in the touched set: the seeds and every node within
\* max_depth hops, in either direction, of a seed that is a node of the
\* source; with max_depth 0 only triples between seeds are kept.
C18_SubgraphLogIsFilteredSourceLog ==
    last.op = "get_subgraph" =>
        LET T == Touched(kg.graph, subgraph_kg.entities, subgraph_kg.max_depth)
        IN Content(subgraph_kg.store.triples)
               = SelectSeq(Content(kg.triples), LAMBDA t : t[1] \in T /\ t[3] \in T)

\* from the log (B,R,A), (B,R,C) and the seed A, one hop reaches B against
\* the edge, not C: only the first triple is kept
C18_Witness ==
    /\ last.op = "get_subgraph"
    /\ Content(kg.triples) = << <<"B", "R", "A">>, <<"B", "R", "C">> >>
    /\ subgraph_kg.entities = <<"A">>
    /\ subgraph_kg.max_depth = 1
    /\ Content(subgraph_kg.store.triples) = << <<"B", "R", "A">> >>

C20_QueryIsFilteredLog ==
    last.op = "query_triples" =>
        /\ Content(last.ret)
               = SelectSeq(Content(kg.triples),
                           LAMBDA t : /\ (last.subject = NoneV \/ t[1] = last.subject)
                                      /\ (last.predicate = NoneV \/ t[2] = last.predicate)
                                      /\ (last.obj = NoneV \/ t[3] = last.obj))
        /\ (last.subject = NoneV /\ last.predicate = NoneV /\ last.obj = NoneV) =>
               Content(last.ret) = Content(kg.triples)

\* the same triple twice in the log is returned twice; the S triple is not
C20_Witness ==
    /\ last.op = "query_triples"
    /\ last.subject = "A" /\ last.predicate = "R" /\ last.obj = NoneV
    /\ Len(kg.triples) = 2
    /\ Content(last.ret) = << <<"A", "R", "B">> >>
    /\ Content(kg.triples) = << <<"A", "S", "A">>, <<"A", "R", "B">> >>

(***************************************************************************)
(* Claims about get_neighbors and the statistics                           *)
(***************************************************************************)
\* the tuples one side of get_neighbors owes: for every edge at the entity
\* on that side, in log order, (relation, other end, side)
Owed(g, entity, side) ==
    LET at == SelectSeq([i \in 1..Len(g.edge) |-> i],
                        LAMBDA i : IF side = "out" THEN g.edge[i].u = entity ELSE g.edge[i].v = entity)
    IN [x \in 1..Len(at) |->
           <<g.edge[at[x]].relation,
             IF side = "out" THEN g.edge[at[x]].v ELSE g.edge[at[x]].u, side>>]

\* the same elements the same number of times
SameBag(a, b) ==
    /\ Len(a) = Len(b)
    /\ \A t \in {a[i] : i \in 1..Len(a)} \cup {b[i] : i \in 1..Len(b)} :
          Cardinality({i \in 1..Len(a) : a[i] = t}) = Cardinality({i \in 1..Len(b) : b[i] = t})

\* C21: get_neighbors returns an empty sequence for an entity that is not a
\* node; for a node it returns one (relation, neighbor, 'out') tuple per
\* outgoing edge for 'out', one (relation, neighbor, 'in') tuple per incoming
\* edge for 'in', parallel edges each listed, and for 'both' the 'out'
\* tuples followed by the 'in' tuples; the tuple count is the out-degree,
\* in-degree or degree of the node.
C21_NeighborsPerEdge ==
    last.op = "get_neighbors" =>
        LET g == kg.graph
            outs == Cardinality({i \in 1..Len(g.edge) : g.edge[i].u = last.entity})
            ins == Cardinality({i \in 1..Len(g.edge) : g.edge[i].v = last.entity})
        IN IF last.entity \notin DOMAIN g.node THEN last.ret = <<>>
           ELSE CASE last.direction = "out" ->
                       /\ SameBag(last.ret, Owed(g, last.entity, "out"))
                       /\ Len(last.ret) = outs
                  [] last.direction = "in" ->
                       /\ SameBag(last.ret, Owed(g, last.entity, "in"))
                       /\ Len(last.ret) = ins
                  [] OTHER ->
                       /\ Len(last.ret) = outs + ins
                       /\ SameBag(SubSeq(last.ret, 1, outs), Owed(g, last.entity, "out"))
                       /\ SameBag(SubSeq(last.ret, outs + 1, outs + ins), Owed(g, last.entity, "in"))

\* two parallel edges A -> B: both are listed
C21_Witness ==
    /\ last.op = "get_neighbors"
    /\ last.entity = "A" /\ last.direction = "both"
    /\ Content(kg.triples) = << <<"A", "R", "B">>, <<"A", "R", "B">> >>
    /\ last.ret = << <<"R", "B", "out">>, <<"R", "B", "out">> >>

QueryOps == {"get_statistics", "get_top_entities", "get_neighbors", "query_triples", "get_subgraph"}

Endpoints(g, n) ==
    {e \in (1..Len(g.edge)) \X {"u", "v"} :
        IF e[2] = "u" THEN g.edge[e[1]].u = n ELSE g.edge[e[1]].v = n}

\* C23: on a non-empty store the in-degrees and the out-degrees each sum to
\* the number of add_triple calls, so avg_in_degree = avg_out_degree,
\* avg_degree * num_nodes = 2 * num_edges, and max_degree is the largest
\* number of edge endpoints at one node (every parallel edge counts).
C23_DegreeStatisticsCountParallelEdges ==
    (last.op = "get_statistics" /\ last.err = "ok") =>
        LET r == last.ret
        IN /\ r.avg_in_degree[1] = addCalls
           /\ r.avg_out_degree[1] = addCalls
           /\ r.avg_in_degree = r.avg_out_degree
           /\ r.avg_in_degree[2] = r.num_nodes
           /\ r.avg_degree[2] = r.num_nodes
           /\ r.avg_degree[1] = 2 * r.num_edges
           /\ r.num_edges = addCalls
           /\ r.max_degree = Max({Cardinality(Endpoints(kg.graph, n)) : n \in DOMAIN kg.graph.node})

\* two parallel edges A -> B: each end has degree 2
C23_Witness ==
    /\ last.op = "get_statistics" /\ last.err = "ok"
    /\ Content(kg.triples) = << <<"A", "R", "B">>, <<"A", "R", "B">> >>
    /\ last.ret.avg_out_degree = <<2, 2>>
    /\ last.ret.max_degree = 2

\* the entries the statistics map has on a non-empty store
StatisticsKeys ==
    {"num_nodes", "num_edges", "num_triples", "num_relations", "density", "is_connected",
     "num_weakly_connected_components", "largest_component_size",
     "avg_degree", "max_degree", "avg_in_degree", "avg_out_degree"}

\* C24, as stated: for a non-empty store the map of get_statistics holds
\* node count, edge count, log length, relation count, density,
\* connectivity flag, component count, largest component size, and the
\* average and the maximum of each of degree, in-degree and out-degree.
C24_HasAveragesAndMaximaOfAllDegrees ==
    (last.op = "get_statistics" /\ kg.triples # <<>>) =>
        /\ last.err = "ok"
        /\ StatisticsKeys \cup {"max_in_degree", "max_out_degree"} \subseteq DOMAIN last.ret

\* C24, amended: for a non-empty store the map of get_statistics holds
\* exactly node count, edge count, log length, relation count, density,
\* connectivity flag, component count, largest component size, the
\* averages of degree, in-degree and out-degree and the maximum of degree;
\* it holds no maximum of in-degree or of out-degree.
C24_StatisticsMapKeys ==
    (last.op = "get_statistics" /\ kg.triples # <<>>) =>
        /\ last.err = "ok"
        /\ DOMAIN last.ret = StatisticsKeys
        /\ last.ret.num_nodes = Cardinality(DOMAIN kg.graph.node)
        /\ last.ret.num_edges = Len(kg.graph.edge)
        /\ last.ret.num_triples = Len(kg.triples)
        /\ last.ret.num_relations = Cardinality({kg.triples[i].p : i \in 1..Len(kg.triples)})
        /\ last.ret.max_degree >= 1

\* statistics of a one-triple store: twelve entries
C24_Witness ==
    /\ last.op = "get_statistics"
    /\ Len(kg.triples) = 1
    /\ Cardinality(DOMAIN last.ret) = 12
    /\ "max_degree" \in DOMAIN last.ret
    /\ "max_in_degree" \notin DOMAIN last.ret

(***************************************************************************)
(* Claims about load_graph and the type map                                *)
(***************************************************************************)
\* C25: load_graph of a file that holds n triples makes exactly n
\* add_triple calls and returns normally, for n = 0 and for n > 0.
C25_LoadGraphTerminatesAfterNCalls ==
    (last.op = "load_graph" /\ file.exists) =>
        /\ last.err = "ok"
        /\ last.calls = Len(file.triples)

\* C30: under add_triple the entity-type map is last-writer-wins and never
\* shrinks: after a call the map has the entries it had plus an entry for
\* each entity the call named with a type, an entity named with a type
\* holds that type (the object's type when the call names one entity as
\* subject and object, both typed), every other entry is as before, and
\* the keys of the map stay nodes of the graph (the map starts empty).
C30_TypeMapLastWriterWins ==
    /\ last.op = "__init__" => kg.entity_types = <<>>
    /\ last.op = "add_triple" =>
          LET was == last.before.entity_types
              typed == (IF Truthy(last.st) THEN {last.s} ELSE {})
                           \cup (IF Truthy(last.ot) THEN {last.o} ELSE {})
          IN /\ DOMAIN was \subseteq DOMAIN last.before.graph.node
                   => DOMAIN kg.entity_types \subseteq DOMAIN kg.graph.node
             /\ DOMAIN kg.entity_types = DOMAIN was \cup typed
             /\ \A e \in DOMAIN kg.entity_types :
                   kg.entity_types[e] =
                       IF e = last.o /\ Truthy(last.ot) THEN last.ot
                       ELSE IF e = last.s /\ Truthy(last.st) THEN last.st
                       ELSE was[e]

\* one call names A as a LOCATION subject and a PERSON object, after A was
\* recorded as a LOCATION: the map says PERSON
C30_Witness ==
    /\ last.op = "add_triple"
    /\ last.s = "A" /\ last.o = "A"
    /\ last.st = "LOCATION" /\ last.ot = "PERSON"
    /\ DictGet(last.before.entity_types, "A") = "LOCATION"
    /\ kg.entity_types["A"] = "PERSON"

(***************************************************************************)
(* Claims about the pipeline                                               *)
(***************************************************************************)
\* C26: process_text returns the triples of extract_relations when there
\* are any; when there are none it returns the triples of
\* extract_simple_triples if the text has at least two entities and no
\* triples otherwise; never a mix of the two, and at least one triple for
\* a text with at least two entities.
C26_FallbackOnlyWithoutRuleTriples ==
    (last.op = "process_text" /\ ~rejects(last.text)) =>
        LET rule == extract_relations(last.text.v)
            simple == extract_simple_triples(last.text.v)
            entities == extract_entities(last.text.v)
        IN /\ last.ret.entities = entities
           /\ rule # <<>> => last.ret.triples = rule
           /\ (rule = <<>> /\ Len(entities) >= 2) => last.ret.triples = simple
           /\ (rule = <<>> /\ Len(entities) < 2) => last.ret.triples = <<>>
           /\ Len(entities) >= 2 => Len(last.ret.triples) >= 1

\* 'nafta steel' has two entities and no rule fires: the triple comes from
\* the type table
C26_Witness ==
    /\ last.op = "process_text"
    /\ last.text.type = "str" /\ last.text.v = "nafta steel"
    /\ extract_relations("nafta steel") = <<>>
    /\ last.ret.triples = << <<"nafta", "AFFECTS", "steel">> >>

\* the sum of the counts of a Counter
RECURSIVE Total(_)
Total(c) ==
    IF DOMAIN c = {} THEN 0
    ELSE LET key == CHOOSE x \in DOMAIN c : TRUE
         IN c[key] + Total([x \in DOMAIN c \ {key} |-> c[x]])

\* C27: after process_posts on a new pipeline total_triples_extracted is
\* the length of the store's triple log and the sum of
\* relation_type_counts, total_entities_extracted is the sum of
\* entity_type_counts, and posts_with_relations <= posts_with_entities
\* <= total_posts_processed <= number of posts.
C27_CountersAgreeWithStore ==
    last.op = "process_posts" =>
        /\ stats.total_triples_extracted = Len(kg.triples)
        /\ stats.total_triples_extracted = Total(stats.relation_type_counts)
        /\ stats.total_entities_extracted = Total(stats.entity_type_counts)
        /\ stats.posts_with_relations <= stats.posts_with_entities
        /\ stats.posts_with_entities <= stats.total_posts_processed
        /\ stats.total_posts_processed <= Len(last.posts)

\* the same post twice, two rule triples each: four log entries, each
\* relation label counted twice
C27_Witness ==
    /\ last.op = "process_posts"
    /\ Len(last.posts) = 2
    /\ stats.posts_with_relations = 2
    /\ stats.total_triples_extracted = 4
    /\ Len(kg.triples) = 4
    /\ stats.relation_type_counts["ANNOUNCES"] = 2
    /\ stats.total_entities_extracted = 4

\* C28: process_posts(posts, limit) with an integer limit >= 0 examines at
\* most limit posts, the first limit posts of the list; only limit None
\* means all posts.
C28_LimitBoundsPostsExamined ==
    (last.op = "process_posts" /\ last.limit.type = "int" /\ last.limit.v >= 0) =>
        /\ last.processing <= last.limit.v
        /\ stats.total_posts_processed <= last.limit.v
        /\ stats = posts_loop(SubSeq(last.posts, 1, IF last.limit.v < Len(last.posts)
                                                    THEN last.limit.v ELSE Len(last.posts)),
                              1, [stats |-> NewStats, kg |-> KnowledgeGraph]).stats

\* the entity type process_posts finds for each end of each triple
EndsHaveTypes(triples, entities) ==
    \A k \in 1..Len(triples) :
        /\ PyOr(find_entity_type(entities, triples[k][1], 1, NoneV), "UNKNOWN") # "UNKNOWN"
        /\ PyOr(find_entity_type(entities, triples[k][3], 1, NoneV), "UNKNOWN") # "UNKNOWN"

\* C29: extract_entities(text) is extract_entities_with_positions(text)
\* without the offsets: same length, same order, same (type, normalized
\* text) at each index; so process_posts finds a type for the subject and
\* the object of every triple and no node it adds is typed UNKNOWN.
C29_EntitiesArePositionsWithoutOffsets ==
    /\ nerStep >= 2 =>
          /\ Len(retEntities) = Len(retPositions)
          /\ \A k \in 1..Len(retEntities) :
                retEntities[k] = <<retPositions[k][1], retPositions[k][2]>>
    /\ nerStep >= 3 => EndsHaveTypes(retRelations, retEntities)
    /\ nerStep >= 4 => EndsHaveTypes(retSimple, retEntities)

\* 'bbc announces NAFTA': both lists say BBC, and the rule triple's ends
\* are found
C29_Witness ==
    /\ nerStep = 4
    /\ inText = "bbc announces NAFTA"
    /\ retPositions = << <<"ORGANIZATION", "BBC", 0, 3>>, <<"POLICY", "NAFTA", 14, 19>> >>
    /\ retEntities = << <<"ORGANIZATION", "BBC">>, <<"POLICY", "NAFTA">> >>
    /\ retRelations # <<>>

====
